---- MODULE Spec2Model ----
(***************************************************************************)
(* Model of the content model and the content collection of pdf-handler:   *)
(* Page / Block / Line / Content (src/extract/contents.py) and the         *)
(* PDFContents list with its cached sort key, join flag and bucket         *)
(* delimiters.                                                             *)
(*                                                                         *)
(* Numbers.  Python floats are modelled as exact decimals: yo, yt, yb and   *)
(* size are integers counting thousandths, x coordinates are whole units.  *)
(* round(v, 2) is Round2 (nearest hundredth, ties to even).                *)
(*                                                                         *)
(* Objects.  Content objects live in `heap` (address -> record) because    *)
(* horizontal_end_on_page is mutated in place and two collections may      *)
(* hold the same objects.  Page, Block and Line are never mutated and are  *)
(* nested by value.  An optional value (None or v) is <<>> or <<v>>.       *)
(***************************************************************************)
EXTENDS Integers, Sequences, FiniteSets, TLC

VARIABLES
    heap,   \* address -> Content record: the Content objects alive
    self,   \* the receiver PDFContents: items (addresses) and the three caches
    other,  \* <<>> or <<c>>: the PDFContents returned by the last non-mutating call
    call    \* the last call: its name, arguments and outcome

vars == <<heap, self, other, call>>

\* ------------------------------------------------------------------ bounds

\* Most spans of an extracted document.
MaxLen == 3

\* Most spans of a document in the join-twice specification.
MaxJoinLen == 4

\* The most spans of a document in the runs with two collections.
MaxCopyLen == 2

\* ------------------------------------------------------------ optional values

None == <<>>

Some(v) == <<v>>

IsNone(o) == o = <<>>

\* Content.horizontal_end_on_page before any bucket assignment (None).
NoBucket == -1

\* ------------------------------------------------------------------ entities

MkPage(n) == [number |-> n, width |-> 595, height |-> 842]

MkBlock(page, id, number, bbox) ==
    [page |-> page, id |-> id, number |-> number, bbox |-> bbox]

MkLine(block, id, number, bbox) ==
    [block |-> block, id |-> id, number |-> number, bbox |-> bbox]

MkContent(line, id, number, text, bbox, origin, ascender, descender, size, font, flags, char_flags, bidi, alpha, rgb_color) ==
    [line |-> line, id |-> id, number |-> number, text |-> text,
     bbox |-> bbox, origin |-> origin, ascender |-> ascender,
     descender |-> descender, size |-> size, font |-> font, flags |-> flags,
     char_flags |-> char_flags, bidi |-> bidi, alpha |-> alpha,
     rgb_color |-> rgb_color, horizontal_end_on_page |-> NoBucket]

\* Derived coordinates of a Content.
xl(c) == c.bbox[1]

yt(c) == c.bbox[2]

xr(c) == c.bbox[3]

yb(c) == c.bbox[4]

xo(c) == c.origin[1]

yo(c) == c.origin[2]

\* Python's round(v, 2) on a value counted in thousandths.
Round2(v) ==
    LET q == v \div 10
        r == v % 10
    IN  IF r < 5 THEN 10 * q
        ELSE IF r > 5 THEN 10 * (q + 1)
        ELSE IF q % 2 = 0 THEN 10 * q ELSE 10 * (q + 1)

\* Font names in lexicographic order; a font is compared by its rank.
FontNames == <<"Arial", "Courier", "Times">>

FontRank(f) == CHOOSE i \in 1..Len(FontNames) : FontNames[i] = f

\* attrgetter(path)(content) for the attribute paths the collection uses.
Attr(c, path) ==
    CASE path = "page.number" -> c.line.block.page.number
      [] path = "block.id" -> c.line.block.id
      [] path = "line.id" -> c.line.id
      [] path = "id" -> c.id
      [] path = "number" -> c.number
      [] path = "xl" -> xl(c)
      [] path = "yt" -> yt(c)
      [] path = "xr" -> xr(c)
      [] path = "yb" -> yb(c)
      [] path = "xo" -> xo(c)
      [] path = "yo" -> yo(c)
      [] path = "ascender" -> c.ascender
      [] path = "descender" -> c.descender
      [] path = "size" -> c.size
      [] path = "font" -> FontRank(c.font)
      [] path = "flags" -> c.flags
      [] path = "char_flags" -> c.char_flags
      [] path = "bidi" -> c.bidi
      [] path = "alpha" -> c.alpha
      [] path = "rgb_color" -> c.rgb_color
      [] path = "horizontal_end_on_page" -> c.horizontal_end_on_page

\* ------------------------------------------------------------------ sort keys

DefaultKey == <<"page.number", "yo", "xo", "block.id", "line.id">>

JoinKey ==
    <<"page.number", "yo", "xo", "block.id", "line.id", "rgb_color", "font", "size">>

BlockLineKey == <<"page.number", "block.id", "line.id">>

IdKey == <<"id">>

\* attrgetter(*by)(content): the tuple the sort compares.
KeyOf(c, by) == [k \in 1..Len(by) |-> Attr(c, by[k])]

\* Python's tuple order: the first differing position decides.
TupleLess(a, b) ==
    \E k \in 1..Len(a) :
        /\ a[k] < b[k]
        /\ \A m \in 1..(k - 1) : a[m] = b[m]

\* A sort that is not stable: an item goes before the items already placed
\* whose key is equal.
RECURSIVE InsertBeforeEquals(_, _, _, _)
InsertBeforeEquals(h, placed, a, by) ==
    IF placed = <<>> THEN <<a>>
    ELSE IF ~TupleLess(KeyOf(h[placed[Len(placed)]], by), KeyOf(h[a], by))
         THEN Append(InsertBeforeEquals(h, SubSeq(placed, 1, Len(placed) - 1), a, by),
                     placed[Len(placed)])
         ELSE Append(placed, a)

\* list.sort(key=...) is stable: each item goes after the items already placed
\* whose key is not greater.
RECURSIVE InsertByKey(_, _, _, _)
InsertByKey(h, placed, a, by) ==
    IF placed = <<>> THEN <<a>>
    ELSE IF TupleLess(KeyOf(h[a], by), KeyOf(h[placed[Len(placed)]], by))
         THEN Append(InsertByKey(h, SubSeq(placed, 1, Len(placed) - 1), a, by),
                     placed[Len(placed)])
         ELSE Append(placed, a)

RECURSIVE SortFrom(_, _, _, _)
SortFrom(h, placed, rest, by) ==
    IF rest = <<>> THEN placed
    ELSE SortFrom(h, InsertByKey(h, placed, Head(rest), by), Tail(rest), by)

\* A sort that takes the items from the last to the first: items with
\* equal keys come out in reverse.
ListSortFromEnd(h, items, by) ==
    SortFrom(h, <<>>, [i \in 1..Len(items) |-> items[Len(items) + 1 - i]], by)

\* super().sort(key=attrgetter(*by)) over the addresses of a list.
ListSort(h, items, by) == SortFrom(h, <<>>, items, by)

\* ----------------------------------------------------------------- PDFContents

\* PDFContents.__init__
PDFContents(contents, sorted_by, horizontal_end_on_page_by_x, is_joined) ==
    [items |-> contents, sorted_by |-> sorted_by,
     horizontal_end_on_page_by_x |-> horizontal_end_on_page_by_x,
     is_joined |-> is_joined]

\* A copy that drops the cached key, flag and delimiters.
copy_without_caches(c) == PDFContents(c.items, None, None, FALSE)

\* PDFContents.copy
copy(c) ==
    PDFContents(c.items, c.sorted_by, c.horizontal_end_on_page_by_x, c.is_joined)

\* A sort that forgets its cache test and sorts on every call.
sort_without_cache(h, c, by, use_cache) ==
    [c EXCEPT !.items = ListSort(h, c.items, by), !.sorted_by = Some(by)]

\* A sort that records the key and leaves the order as it is.
sort_caching_only(h, c, by, use_cache) ==
    [c EXCEPT !.sorted_by = Some(by)]

\* PDFContents.sort: the collection after the call.
sort(h, c, by, use_cache) ==
    IF use_cache /\ ~IsNone(c.sorted_by) /\ c.sorted_by[1] = by
    THEN c
    ELSE [c EXCEPT !.items = ListSort(h, c.items, by), !.sorted_by = Some(by)]

\* A test for sequential spans that does not look at the colour.
_is_sequential_any_color(content1, content2) ==
    /\ content1.line.id = content2.line.id
    /\ content1.font = content2.font
    /\ content1.flags = content2.flags
    /\ content1.char_flags = content2.char_flags
    /\ content1.bidi = content2.bidi
    /\ content1.alpha = content2.alpha
    /\ content1.horizontal_end_on_page = content2.horizontal_end_on_page
    /\ Round2(content1.size) = Round2(content2.size)
    /\ Round2(yo(content1)) = Round2(yo(content2))

\* PDFContents._is_sequential
_is_sequential(content1, content2) ==
    /\ content1.line.id = content2.line.id
    /\ content1.font = content2.font
    /\ content1.flags = content2.flags
    /\ content1.char_flags = content2.char_flags
    /\ content1.bidi = content2.bidi
    /\ content1.alpha = content2.alpha
    /\ content1.rgb_color = content2.rgb_color
    /\ content1.horizontal_end_on_page = content2.horizontal_end_on_page
    /\ Round2(content1.size) = Round2(content2.size)
    /\ Round2(yo(content1)) = Round2(yo(content2))

\* min(...) and max(...) over the values f[1..Len(f)] of a non-empty list.
MinOf(f) == CHOOSE v \in {f[i] : i \in 1..Len(f)} : \A i \in 1..Len(f) : v <= f[i]

\* A max(...) that gives the least value.
LeastOf(f) == CHOOSE v \in {f[i] : i \in 1..Len(f)} : \A i \in 1..Len(f) : v <= f[i]

MaxOf(f) == CHOOSE v \in {f[i] : i \in 1..Len(f)} : \A i \in 1..Len(f) : v >= f[i]

\* A join that puts nothing between the texts.
RECURSIVE JoinTextsUnspaced(_)
JoinTextsUnspaced(texts) ==
    IF texts = <<>> THEN <<>>
    ELSE texts[1] \o JoinTextsUnspaced(Tail(texts))

\* " ".join(texts): texts are sequences of one-character strings.
RECURSIVE JoinTexts(_)
JoinTexts(texts) ==
    IF texts = <<>> THEN <<>>
    ELSE IF Len(texts) = 1 THEN texts[1]
    ELSE texts[1] \o <<" ">> \o JoinTexts(Tail(texts))

\* str.strip(): drop the blanks at both ends.
RECURSIVE Strip(_)
Strip(t) ==
    IF t = <<>> THEN t
    ELSE IF Head(t) = " " THEN Strip(Tail(t))
    ELSE IF t[Len(t)] = " " THEN Strip(SubSeq(t, 1, Len(t) - 1))
    ELSE t

\* A merge that takes number, box, origin and metrics from the first member.
_create_content_from_first(sequencial_contents, new_content_id) ==
    LET n == Len(sequencial_contents)
        text_of == [i \in 1..n |-> sequencial_contents[i].text]
    IN  [sequencial_contents[1] EXCEPT !.id = new_content_id,
                                       !.text = Strip(JoinTexts(text_of))]

\* A merge that keeps the id of the first member.
_create_content_keeping_id(sequencial_contents, new_content_id) ==
    [_create_content_from_first(sequencial_contents, new_content_id)
        EXCEPT !.id = sequencial_contents[1].id]

\* A merge that leaves the new span without a bucket.
_create_content_without_bucket(sequencial_contents, new_content_id) ==
    LET n == Len(sequencial_contents)
        over(f(_)) == [i \in 1..n |-> f(sequencial_contents[i])]
        number_of(c) == c.number
        ascender_of(c) == c.ascender
        descender_of(c) == c.descender
        text_of(c) == c.text
        first == sequencial_contents[1]
    IN  [line |-> first.line,
         id |-> new_content_id,
         number |-> MinOf(over(number_of)),
         text |-> Strip(JoinTexts(over(text_of))),
         bbox |-> <<MinOf(over(xl)), MinOf(over(yt)), MaxOf(over(xr)), MaxOf(over(yb))>>,
         origin |-> <<MinOf(over(xo)), MinOf(over(yo))>>,
         ascender |-> MaxOf(over(ascender_of)),
         descender |-> MinOf(over(descender_of)),
         size |-> first.size,
         font |-> first.font,
         flags |-> first.flags,
         char_flags |-> first.char_flags,
         bidi |-> first.bidi,
         alpha |-> first.alpha,
         rgb_color |-> first.rgb_color,
         horizontal_end_on_page |-> NoBucket]

\* PDFContents._create_content_by_sequential: the Content made from a group
\* (a non-empty sequence of Content records).
_create_content_by_sequential(sequencial_contents, new_content_id) ==
    LET n == Len(sequencial_contents)
        over(f(_)) == [i \in 1..n |-> f(sequencial_contents[i])]
        number_of(c) == c.number
        ascender_of(c) == c.ascender
        descender_of(c) == c.descender
        text_of(c) == c.text
        first == sequencial_contents[1]
    IN  [line |-> first.line,
         id |-> new_content_id,
         number |-> MinOf(over(number_of)),
         text |-> Strip(JoinTexts(over(text_of))),
         bbox |-> <<MinOf(over(xl)), MinOf(over(yt)), MaxOf(over(xr)), MaxOf(over(yb))>>,
         origin |-> <<MinOf(over(xo)), MinOf(over(yo))>>,
         ascender |-> MaxOf(over(ascender_of)),
         descender |-> MinOf(over(descender_of)),
         size |-> first.size,
         font |-> first.font,
         flags |-> first.flags,
         char_flags |-> first.char_flags,
         bidi |-> first.bidi,
         alpha |-> first.alpha,
         rgb_color |-> first.rgb_color,
         horizontal_end_on_page |-> first.horizontal_end_on_page]

\* An inner loop that stops one short: the last item never extends a group.
RECURSIVE RunEndOneShort(_, _, _)
RunEndOneShort(h, items, j) ==
    IF j < Len(items) /\ _is_sequential(h[items[j]], h[items[j - 1]])
    THEN RunEndOneShort(h, items, j + 1)
    ELSE j

\* The inner loop of join: the first index after i whose item is not
\* sequential with the item just before it (Len + 1 when the list ends).
RECURSIVE RunEnd(_, _, _)
RunEnd(h, items, j) ==
    IF j <= Len(items) /\ _is_sequential(h[items[j]], h[items[j - 1]])
    THEN RunEnd(h, items, j + 1)
    ELSE j

\* The outer loop of join: the groups (sequences of Content records) in the
\* order the scan emits them.
RECURSIVE SequentialGroups(_, _, _)
SequentialGroups(h, items, i) ==
    IF i > Len(items) THEN <<>>
    ELSE LET j == RunEnd(h, items, i + 1)
         IN  <<[k \in 1..(j - i) |-> h[items[i + k - 1]]]>>
                 \o SequentialGroups(h, items, j)

\* The k smallest addresses that `keep` does not hold.
FreshAddrs(keep, k) ==
    LET free == (1..(Cardinality(keep) + k)) \ keep
    IN  [i \in 1..k |->
            CHOOSE a \in free : Cardinality({b \in free : b < a}) = i - 1]

\* A join that forgets its cache test and merges on every call.
join_without_cache(h, c, use_cache, keep) ==
    LET sorted_self == sort(h, c, JoinKey, TRUE)
        groups == SequentialGroups(h, sorted_self.items, 1)
        addrs == FreshAddrs(keep, Len(groups))
        made == [k \in 1..Len(groups) |->
                    _create_content_by_sequential(groups[k], k - 1)]
        h2 == [a \in keep \cup {addrs[k] : k \in 1..Len(groups)} |->
                  IF a \in keep THEN h[a]
                  ELSE made[CHOOSE k \in 1..Len(groups) : addrs[k] = a]]
        joined_pdf_contents == sort(h2, PDFContents(addrs, None, None, FALSE),
                                    sorted_self.sorted_by[1], TRUE)
    IN  [heap |-> h2,
         coll |-> [sorted_self EXCEPT !.items = joined_pdf_contents.items,
                                      !.is_joined = TRUE]]

\* A join that clears the bucket of the spans another collection holds.
join_resetting_buckets(h, c, use_cache, keep) ==
    IF use_cache /\ c.is_joined
    THEN [heap |-> h, coll |-> c]
    ELSE LET r == join_without_cache(h, c, use_cache, keep)
         IN  [heap |-> [a \in DOMAIN r.heap |->
                           IF a \in keep
                           THEN [r.heap[a] EXCEPT !.horizontal_end_on_page = NoBucket]
                           ELSE r.heap[a]],
              coll |-> r.coll]

\* PDFContents.join on collection c.  `keep` are the addresses another
\* collection still holds; the objects c held before and nobody else holds are
\* dropped.  The result is the heap and the collection after the call.
join(h, c, use_cache, keep) ==
    IF use_cache /\ c.is_joined
    THEN [heap |-> h, coll |-> c]
    ELSE LET sorted_self == sort(h, c, JoinKey, TRUE)
             groups == SequentialGroups(h, sorted_self.items, 1)
             addrs == FreshAddrs(keep, Len(groups))
             made == [k \in 1..Len(groups) |->
                         _create_content_by_sequential(groups[k], k - 1)]
             h2 == [a \in keep \cup {addrs[k] : k \in 1..Len(groups)} |->
                       IF a \in keep THEN h[a]
                       ELSE made[CHOOSE k \in 1..Len(groups) : addrs[k] = a]]
             sort_by == IF ~IsNone(sorted_self.sorted_by)
                        THEN sorted_self.sorted_by[1]
                        ELSE BlockLineKey
             joined_pdf_contents == sort(h2, PDFContents(addrs, None, None, FALSE),
                                         sort_by, TRUE)
         IN  [heap |-> h2,
              coll |-> [sorted_self EXCEPT !.items = joined_pdf_contents.items,
                                           !.is_joined = TRUE]]

\* A bucket search that takes a span on a delimiter to be right of it.
RECURSIVE BucketFromStrict(_, _, _)
BucketFromStrict(x, x_delimiters, i) ==
    IF i > Len(x_delimiters) THEN Len(x_delimiters)
    ELSE IF x < x_delimiters[i] THEN i - 1
    ELSE BucketFromStrict(x, x_delimiters, i + 1)

\* The bucket assign_horizontal_end_on_page gives a Content with left edge x.
RECURSIVE BucketFrom(_, _, _)
BucketFrom(x, x_delimiters, i) ==
    IF i > Len(x_delimiters) THEN Len(x_delimiters)
    ELSE IF x <= x_delimiters[i] THEN i - 1
    ELSE BucketFrom(x, x_delimiters, i + 1)

assigned_bucket(content, x_delimiters) == BucketFrom(xl(content), x_delimiters, 1)

\* An assignment that forgets its cache test and runs on every call.
assign_without_cache(h, c, x_delimiters, use_cache) ==
    LET mine == {c.items[i] : i \in 1..Len(c.items)}
    IN  [heap |-> [a \in DOMAIN h |->
                      IF a \in mine
                      THEN [h[a] EXCEPT !.horizontal_end_on_page =
                                            assigned_bucket(h[a], x_delimiters)]
                      ELSE h[a]],
         coll |-> [c EXCEPT !.horizontal_end_on_page_by_x = Some(x_delimiters)]]

\* PDFContents.assign_horizontal_end_on_page on collection c: the heap and the
\* collection after the call.
assign_horizontal_end_on_page(h, c, x_delimiters, use_cache) ==
    IF /\ use_cache
       /\ ~IsNone(c.horizontal_end_on_page_by_x)
       /\ c.horizontal_end_on_page_by_x[1] = x_delimiters
    THEN [heap |-> h, coll |-> c]
    ELSE LET mine == {c.items[i] : i \in 1..Len(c.items)}
         IN  [heap |-> [a \in DOMAIN h |->
                           IF a \in mine
                           THEN [h[a] EXCEPT !.horizontal_end_on_page =
                                                 assigned_bucket(h[a], x_delimiters)]
                           ELSE h[a]],
              coll |-> [c EXCEPT !.horizontal_end_on_page_by_x = Some(x_delimiters)]]

\* A numeric test that lets the font name pass.
IsNumberOrFont(c, attr) ==
    /\ attr \notin {"text"}
    /\ attr = "horizontal_end_on_page" => c.horizontal_end_on_page /= NoBucket

\* isinstance(value, int) or isinstance(value, float) for the value of attr.
IsNumber(c, attr) ==
    /\ attr \notin {"text", "font"}
    /\ attr = "horizontal_end_on_page" => c.horizontal_end_on_page /= NoBucket

Abs(v) == IF v < 0 THEN -v ELSE v

\* PDFContents._is_same_attr
_is_same_attr(content1, content2, attr, diff_tolerance) ==
    /\ content1.line.block.page = content2.line.block.page
    /\ Abs(Attr(content1, attr) - Attr(content2, attr)) <= diff_tolerance

\* A row test that compares yo as it is, not rounded.
_is_same_row_unrounded(content1, content2, yo_diff_tolerance) ==
    /\ content1.line.block.page.number = content2.line.block.page.number
    /\ Abs(yo(content1) - yo(content2)) <= yo_diff_tolerance

\* PDFContents._is_same_row
_is_same_row(content1, content2, yo_diff_tolerance) ==
    /\ content1.line.block.page.number = content2.line.block.page.number
    /\ Abs(Round2(yo(content1)) - Round2(yo(content2))) <= yo_diff_tolerance

\* The addresses a collection holds.
Held(c) == {c.items[i] : i \in 1..Len(c.items)}

\* The two scans the group queries share: the first position of `items`
\* whose span matches (Len + 1 if none does), then the positions from there
\* up to the first one that does not match.
FirstMatch(items, matching) ==
    LET hits == {i \in 1..Len(items) : items[i] \in matching}
    IN  IF hits = {} THEN Len(items) + 1
        ELSE CHOOSE i \in hits : \A j \in hits : i <= j

RunFrom(items, i_initial, matching) ==
    LET stops == {i \in (i_initial + 1)..Len(items) : items[i] \notin matching}
        stop == IF stops = {} THEN Len(items) + 1
                ELSE CHOOSE i \in stops : \A j \in stops : i <= j
    IN  SubSeq(items, i_initial, stop - 1)

\* The end of both queries: the run as a new collection, in the order of the
\* receiver's cached key or else of id.
SortedLikeReceiver(h, c, run) ==
    sort(h, PDFContents(run, None, None, FALSE),
         IF ~IsNone(c.sorted_by) THEN c.sorted_by[1] ELSE IdKey, TRUE)

\* PDFContents.get_contents_from_same_attr with a 0-based i_ref: what is
\* raised ("" if nothing) and the collection returned.
get_contents_from_same_attr(h, c, i_ref, attr, diff_tolerance) ==
    LET content_ref == h[c.items[i_ref + 1]]
        pdf_content == sort(h, copy(c), <<"page.number", attr>>, TRUE)
        same == {a \in Held(c) : _is_same_attr(h[a], content_ref, attr, diff_tolerance)}
        i_initial == FirstMatch(pdf_content.items, same)
    IN  IF diff_tolerance < 0
        THEN [raised |-> "The argument 'diff_tolerance' can not be less then zero.",
              coll |-> None]
        ELSE IF ~IsNumber(content_ref, attr)
        THEN [raised |-> "The 'attr' must be int or float.", coll |-> None]
        ELSE IF i_initial = Len(pdf_content.items) + 1
        THEN [raised |-> "Reference content not found when searching for same attr.",
              coll |-> None]
        ELSE [raised |-> "",
              coll |-> Some(SortedLikeReceiver(h, c,
                                RunFrom(pdf_content.items, i_initial, same)))]

\* A row query that returns an empty collection for a negative tolerance.
get_contents_from_same_row_lenient(h, c, i_ref, yo_diff_tolerance) ==
    LET content_ref == h[c.items[i_ref + 1]]
        pdf_content == sort(h, copy(c), <<"page.number", "yo">>, TRUE)
        same == {a \in Held(c) : _is_same_row(h[a], content_ref, yo_diff_tolerance)}
        i_initial == FirstMatch(pdf_content.items, same)
    IN  IF yo_diff_tolerance < 0
        THEN [raised |-> "", coll |-> Some(PDFContents(<<>>, None, None, FALSE))]
        ELSE IF i_initial = Len(pdf_content.items) + 1
        THEN [raised |-> "Reference content not found when searching for same row.",
              coll |-> None]
        ELSE [raised |-> "",
              coll |-> Some(SortedLikeReceiver(h, c,
                                RunFrom(pdf_content.items, i_initial, same)))]

\* PDFContents.get_contents_from_same_row with a 0-based i_ref.
get_contents_from_same_row(h, c, i_ref, yo_diff_tolerance) ==
    LET content_ref == h[c.items[i_ref + 1]]
        pdf_content == sort(h, copy(c), <<"page.number", "yo">>, TRUE)
        same == {a \in Held(c) : _is_same_row(h[a], content_ref, yo_diff_tolerance)}
        i_initial == FirstMatch(pdf_content.items, same)
    IN  IF yo_diff_tolerance < 0
        THEN [raised |-> "The argument 'yo_diff_tolerance' can not be less then zero.",
              coll |-> None]
        ELSE IF i_initial = Len(pdf_content.items) + 1
        THEN [raised |-> "Reference content not found when searching for same row.",
              coll |-> None]
        ELSE [raised |-> "",
              coll |-> Some(SortedLikeReceiver(h, c,
                                RunFrom(pdf_content.items, i_initial, same)))]

\* ------------------------------------------------- the extracted documents

\* Two lines of one block on page 0, and a line of another block on page 1.
Page0 == MkPage(0)

Page1 == MkPage(1)

Block0 == MkBlock(Page0, 0, 0, <<100, 90000, 500, 130000>>)

Block1 == MkBlock(Page1, 1, 0, <<100, 90000, 500, 130000>>)

LineA == MkLine(Block0, 0, 0, <<100, 90000, 500, 110000>>)

LineB == MkLine(Block0, 1, 1, <<120, 95000, 480, 130000>>)

LineC == MkLine(Block1, 2, 0, <<100, 90000, 500, 110000>>)

\* How a span's box lies around its origin, and its font metrics.
BaseGeom ==
    [dx |-> 0, w |-> 40, up |-> 9000, down |-> 2000, ascender |-> 950, descender |-> -200]

WideGeom ==
    [dx |-> -5, w |-> 90, up |-> 9500, down |-> 1500, ascender |-> 900, descender |-> -250]

TallGeom ==
    [dx |-> 5, w |-> 20, up |-> 12000, down |-> 3000, ascender |-> 1100, descender |-> -150]

BaseStyle ==
    [size |-> 12000, font |-> "Arial", flags |-> 0, char_flags |-> 16, bidi |-> 0,
     alpha |-> 255, rgb_color |-> 0]

\* The raw spans of a rendering backend: every choice of line, origin, box
\* and style among the given ones.
RawSpans(lines, xos, yos, geoms, styles) ==
    [line : lines, xo : xos, yo : yos, geom : geoms, style : styles]

\* The documents of at most n raw spans, in the order extraction walks them
\* (page, block, line).
Documents(raws, n) ==
    {d \in UNION {[1..k -> raws] : k \in 1..n} :
        \A i \in 1..(Len(d) - 1) : d[i].line.id <= d[i + 1].line.id}

Letters == <<"a", "b", "c", "d", "e", "f", "g", "h">>

\* PDFExtractor.extract_contents: the Content made of the i-th raw span of
\* document d.  Its text is one letter, a different one for every span.
Extracted(d, i) ==
    LET raw == d[i]
        x == raw.xo + raw.geom.dx
    IN  MkContent(raw.line,
                  i - 1,
                  Cardinality({j \in 1..(i - 1) : d[j].line = raw.line}),
                  <<Letters[i]>>,
                  <<x, raw.yo - raw.geom.up, x + raw.geom.w, raw.yo + raw.geom.down>>,
                  <<raw.xo, raw.yo>>,
                  raw.geom.ascender,
                  raw.geom.descender,
                  raw.style.size,
                  raw.style.font,
                  raw.style.flags,
                  raw.style.char_flags,
                  raw.style.bidi,
                  raw.style.alpha,
                  raw.style.rgb_color)

NoCall ==
    [op |-> "none", by |-> <<>>, use_cache |-> FALSE, x_delimiters |-> <<>>,
     i_ref |-> 0, attr |-> "", tolerance |-> 0, ran |-> FALSE, raised |-> "",
     known_contents |-> <<>>, exactly_text |-> FALSE, result |-> FALSE]

\* The state after PDFExtractor.extract_contents on a document.
InitOn(docs) ==
    \E d \in docs :
        /\ heap = [a \in 1..Len(d) |-> Extracted(d, a)]
        /\ self = PDFContents([a \in 1..Len(d) |-> a], None, None, FALSE)
        /\ other = None
        /\ call = NoCall

\* ------------------------------------------------------------------ actions

HeldByOther == IF IsNone(other) THEN {} ELSE Held(other[1])

\* self.sort(by, use_cache)
Sort(by, use_cache) ==
    /\ self' = sort(heap, self, by, use_cache)
    /\ call' = [NoCall EXCEPT !.op = "sort", !.by = by, !.use_cache = use_cache,
                              !.ran = ~(use_cache /\ self.sorted_by = Some(by))]
    /\ UNCHANGED <<heap, other>>

\* self.join(use_cache)
Join(use_cache) ==
    LET r == join(heap, self, use_cache, HeldByOther)
    IN  /\ heap' = r.heap
        /\ self' = r.coll
        /\ call' = [NoCall EXCEPT !.op = "join", !.use_cache = use_cache,
                                  !.ran = ~(use_cache /\ self.is_joined)]
        /\ UNCHANGED other

\* self.assign_horizontal_end_on_page(x_delimiters, use_cache)
AssignHorizontalEndOnPage(x_delimiters, use_cache) ==
    LET r == assign_horizontal_end_on_page(heap, self, x_delimiters, use_cache)
    IN  /\ heap' = r.heap
        /\ self' = r.coll
        /\ call' = [NoCall EXCEPT
                        !.op = "assign_horizontal_end_on_page",
                        !.x_delimiters = x_delimiters,
                        !.use_cache = use_cache,
                        !.ran = ~(use_cache /\ self.horizontal_end_on_page_by_x
                                                   = Some(x_delimiters))]
        /\ UNCHANGED other

\* ---------------------------------------------- sort, join and bucket calls

\* Spans of two lines of one page whose yo differ by less than a hundredth.
JoinRaws == RawSpans({LineA, LineB}, {150, 250}, {100002, 100003}, {BaseGeom}, {BaseStyle})

\* A key that names the mutable bucket: the column, then the row.
BucketKey == <<"horizontal_end_on_page", "yo">>

SortKeys == {DefaultKey, JoinKey, <<"xo">>, BucketKey}

DelimiterChoices == {<<200>>, <<200, 400>>}

Init == InitOn(Documents(JoinRaws, MaxLen))

Next ==
    \/ \E by \in SortKeys, use_cache \in BOOLEAN : Sort(by, use_cache)
    \/ \E use_cache \in BOOLEAN : Join(use_cache)
    \/ \E x_delimiters \in DelimiterChoices, use_cache \in BOOLEAN :
           AssignHorizontalEndOnPage(x_delimiters, use_cache)

Spec == Init /\ [][Next]_vars

\* ------------------------------------------------------ vocabulary of claims

\* The position of address a in a list of distinct addresses.
PosIn(items, a) == CHOOSE i \in 1..Len(items) : items[i] = a

\* items is in non-decreasing order of the key `by`.
InOrderOf(h, items, by) ==
    \A i \in 1..(Len(items) - 1) :
        ~TupleLess(KeyOf(h[items[i + 1]], by), KeyOf(h[items[i]], by))

\* after holds the addresses of before, each once.
IsPermutation(before, after) ==
    /\ Len(before) = Len(after)
    /\ \A i \in 1..Len(before) :
           Cardinality({j \in 1..Len(after) : after[j] = before[i]})
               = Cardinality({j \in 1..Len(before) : before[j] = before[i]})

\* Items with equal keys are in after in the order they have in before.
KeepsOrderOfEquals(h, before, after, by) ==
    \A i, j \in 1..Len(before) :
        (i < j /\ KeyOf(h[before[i]], by) = KeyOf(h[before[j]], by))
            => PosIn(after, before[i]) < PosIn(after, before[j])

\* C5: sort(by, use_cache=False) leaves a permutation of the sequence, in
\* non-decreasing order of the key tuple, spans of equal key keeping their
\* relative order.
C5_SortIsStableSort ==
    [][(call'.op = "sort" /\ ~call'.use_cache) =>
           /\ IsPermutation(self.items, self'.items)
           /\ InOrderOf(heap', self'.items, call'.by)
           /\ KeepsOrderOfEquals(heap, self.items, self'.items, call'.by)
           /\ heap' = heap]_vars

\* A forced sort by xo has run on a list that was not in document order and
\* holds two spans of equal xo.
C5_Witness ==
    /\ call.op = "sort" /\ ~call.use_cache /\ call.by = <<"xo">>
    /\ \E i, j \in 1..Len(self.items) :
           /\ i < j
           /\ xo(heap[self.items[i]]) = xo(heap[self.items[j]])
           /\ heap[self.items[i]].id > heap[self.items[j]].id

\* C6: sort(by, use_cache=True) on a collection whose cached key equals `by`
\* changes neither the order nor any cache, whatever the order is.
C6_CachedSortIsNoOp ==
    [][(/\ call'.op = "sort"
        /\ call'.use_cache
        /\ ~IsNone(self.sorted_by)
        /\ self.sorted_by[1] = call'.by) =>
           /\ self' = self
           /\ heap' = heap]_vars

\* A cached sort was skipped on a list that is not in the order of its key.
C6_Witness ==
    /\ call.op = "sort" /\ call.use_cache /\ ~call.ran
    /\ ~InOrderOf(heap, self.items, call.by)

\* The call that led to the next state was a join that ran its merge pass.
JoinRan == call'.op = "join" /\ ~(call'.use_cache /\ self.is_joined)

\* Where the stable sort by `by` puts the item at position i of items.
SortedPos(h, items, by, i) ==
    1 + Cardinality({j \in 1..Len(items) :
            \/ TupleLess(KeyOf(h[items[j]], by), KeyOf(h[items[i]], by))
            \/ (KeyOf(h[items[j]], by) = KeyOf(h[items[i]], by) /\ j < i)})

\* items sorted by `by`, equal keys in their order in items.
StablySorted(h, items, by) ==
    [k \in 1..Len(items) |->
        items[CHOOSE i \in 1..Len(items) : SortedPos(h, items, by, i) = k]]

\* The positions of a sorted list where a run starts: the first one, and
\* every one whose span is not sequential with the span before it.
RunStarts(h, sorted) ==
    {i \in 1..Len(sorted) :
        i = 1 \/ ~_is_sequential(h[sorted[i]], h[sorted[i - 1]])}

\* The run that starts at position b: up to the position before the next start.
RunAt(h, sorted, b) ==
    LET later == {i \in RunStarts(h, sorted) : i > b}
        last == IF later = {} THEN Len(sorted)
                ELSE (CHOOSE i \in later : \A m \in later : i <= m) - 1
    IN  SubSeq(sorted, b, last)

\* The letters of a text, blanks left out.  Every extracted span has its own
\* letter, so the letters of a merged text name the spans merged into it.
IsLetter(ch) == ch /= " "

LettersIn(text) == SelectSeq(text, IsLetter)

RECURSIVE LettersOfRun(_, _)
LettersOfRun(h, run) ==
    IF run = <<>> THEN <<>>
    ELSE LettersIn(h[Head(run)].text) \o LettersOfRun(h, Tail(run))

\* C1: a join that runs leaves as many spans as the sequence sorted by the
\* join key has maximal runs of spans sequential with the span before them,
\* and each run is merged, whole and alone, into one span.
C1_JoinMergesMaximalRuns ==
    [][JoinRan =>
           LET sorted == StablySorted(heap, self.items, JoinKey)
               starts == RunStarts(heap, sorted)
           IN  /\ Len(self'.items) = Cardinality(starts)
               /\ \A b \in starts :
                      Cardinality({a \in Held(self') :
                          LettersIn(heap'[a].text)
                              = LettersOfRun(heap, RunAt(heap, sorted, b))}) = 1]_vars

\* A join has merged a run of two spans of a list of three, out of order.
C1_Witness ==
    /\ call.op = "join" /\ call.ran
    /\ Len(self.items) = 2
    /\ \E a \in Held(self) : LettersIn(heap[a].text) = <<"c", "a">>

\* The texts, boxes and origins of a collection's spans, in list order.
Contents(h, c) ==
    [i \in 1..Len(c.items) |->
        [text |-> h[c.items[i]].text,
         bbox |-> h[c.items[i]].bbox,
         origin |-> h[c.items[i]].origin]]

C3_JoinRestoresPriorOrder ==
    [][JoinRan =>
           InOrderOf(heap', self'.items,
                     IF IsNone(self.sorted_by) THEN BlockLineKey
                     ELSE self.sorted_by[1])]_vars

\* ------------------------------------------------------------- joining twice

IdemInit == InitOn(Documents(JoinRaws, MaxJoinLen))

IdemNext == \E use_cache \in BOOLEAN : Join(use_cache)

IdemSpec == IdemInit /\ [][IdemNext]_vars

\* --------------------------------------------------- merging boxes and metrics

\* Spans of two lines whose boxes and font metrics differ.
MergeRaws ==
    RawSpans({LineA, LineB}, {150, 250}, {100002, 100003}, {WideGeom, TallGeom},
             {BaseStyle})

MergeInit == InitOn(Documents(MergeRaws, MaxLen))

MergeNext == \E use_cache \in BOOLEAN : Join(use_cache)

MergeSpec == MergeInit /\ [][MergeNext]_vars

SetMin(S) == CHOOSE v \in S : \A w \in S : v <= w

SetMax(S) == CHOOSE v \in S : \A w \in S : v >= w

LetterSet(text) == {text[i] : i \in 1..Len(text)} \ {" "}

\* The spans of collection c that were merged into a span with text `text`.
MergedInto(h, c, text) ==
    {a \in Held(c) : LetterSet(h[a].text) \subseteq LetterSet(text)}

\* C10: a span made by join has the union box of its group, the least
\* number, the least xo and yo, the greatest ascender, the least descender,
\* and the line of the group's first member.
C10_MergedGeometry ==
    [][JoinRan =>
           \A out \in Held(self') :
               LET o == heap'[out]
                   group == MergedInto(heap, self, o.text)
                   first == CHOOSE a \in group : heap[a].text[1] = o.text[1]
               IN  /\ group /= {}
                   /\ o.bbox = <<SetMin({xl(heap[a]) : a \in group}),
                                 SetMin({yt(heap[a]) : a \in group}),
                                 SetMax({xr(heap[a]) : a \in group}),
                                 SetMax({yb(heap[a]) : a \in group})>>
                   /\ o.number = SetMin({heap[a].number : a \in group})
                   /\ o.origin = <<SetMin({xo(heap[a]) : a \in group}),
                                   SetMin({yo(heap[a]) : a \in group})>>
                   /\ o.ascender = SetMax({heap[a].ascender : a \in group})
                   /\ o.descender = SetMin({heap[a].descender : a \in group})
                   /\ o.line = heap[first].line]_vars

\* A join has merged three spans whose first member has neither the least
\* number nor the leftmost box nor the greatest ascender of the group.
C10_Witness ==
    /\ call.op = "join" /\ call.ran
    /\ \E a \in Held(self) :
           /\ Len(LettersIn(heap[a].text)) = 3
           /\ heap[a].text[1] /= "a"
           /\ heap[a].number = 0
           /\ xr(heap[a]) - xl(heap[a]) > 100
           /\ heap[a].ascender - heap[a].descender > 1250

\* ------------------------------------------------------------ bucket calls

\* Spans of one row left of, on, between and right of the delimiters.
BucketRaws == RawSpans({LineA}, {150, 200, 250, 450}, {100002}, {BaseGeom}, {BaseStyle})

\* Delimiter tuples: none, one, two ascending, two descending.
BucketDelimiters == {<<>>, <<200>>, <<200, 400>>, <<400, 200>>}

BucketInit == InitOn(Documents(BucketRaws, MaxLen))

BucketNext ==
    \E x_delimiters \in BucketDelimiters, use_cache \in BOOLEAN :
        AssignHorizontalEndOnPage(x_delimiters, use_cache)

BucketSpec == BucketInit /\ [][BucketNext]_vars

StrictlyAscending(d) == \A i \in 1..(Len(d) - 1) : d[i] < d[i + 1]

\* C9: a bucket assignment that runs gives every span the index of the first
\* delimiter not left of its xl, or the number of delimiters if there is
\* none; for strictly ascending delimiters the bucket is in 0..n, is 0 at or
\* left of the first delimiter, n right of the last, and grows with xl.
C9_BucketIsFirstDelimiter ==
    (call.op = "assign_horizontal_end_on_page" /\ call.ran) =>
        LET d == call.x_delimiters
            n == Len(d)
            bucket(a) == heap[a].horizontal_end_on_page
        IN  \A a \in Held(self) :
                LET x == xl(heap[a])
                    b == bucket(a)
                IN  /\ (\E i \in 1..n : x <= d[i]) =>
                           /\ b \in 0..(n - 1)
                           /\ x <= d[b + 1]
                           /\ \A i \in 1..b : x > d[i]
                    /\ (\A i \in 1..n : x > d[i]) => b = n
                    /\ StrictlyAscending(d) =>
                           /\ b \in 0..n
                           /\ (n > 0 /\ x <= d[1]) => b = 0
                           /\ \A a2 \in Held(self) :
                                  x <= xl(heap[a2]) => b <= bucket(a2)
                    /\ d = <<200, 400>> =>
                           /\ x = 150 => b = 0
                           /\ x = 250 => b = 1
                           /\ x = 450 => b = 2

\* Delimiters (200, 400) were assigned to spans at xl 150, 250 and 450.
C9_Witness ==
    /\ call.op = "assign_horizontal_end_on_page" /\ call.ran
    /\ call.x_delimiters = <<200, 400>>
    /\ {xl(heap[a]) : a \in Held(self)} = {150, 250, 450}
    /\ {heap[a].horizontal_end_on_page : a \in Held(self)} = {0, 1, 2}

\* ------------------------------------------------ the inherited list methods

\* list.append(content): PDFContents inherits it unchanged, no cache is touched.
list_append(c, a) == [c EXCEPT !.items = Append(@, a)]

\* list.clear()
list_clear(c) == [c EXCEPT !.items = <<>>]

\* The heap without the objects no collection holds.
Collect(h, c) == [a \in Held(c) \cup HeldByOther |-> h[a]]

\* How many extracted spans the collection stands for: merged spans count
\* for the spans merged into them.
RECURSIVE SpansIn(_, _)
SpansIn(h, items) ==
    IF items = <<>> THEN 0
    ELSE Len(LettersIn(h[Head(items)].text)) + SpansIn(h, Tail(items))

\* self.append(Content(...)): a new span, numbered after the ones held.  The
\* collection never stands for more than MaxLen spans.
ListAppend(raw) ==
    /\ SpansIn(heap, self.items) < MaxLen
    /\ LET a == FreshAddrs(DOMAIN heap, 1)[1]
           n == SpansIn(heap, self.items) + 1
           d == [i \in 1..n |-> raw]
       IN  /\ heap' = [b \in DOMAIN heap \cup {a} |->
                          IF b = a THEN Extracted(d, n) ELSE heap[b]]
           /\ self' = list_append(self, a)
    /\ call' = [NoCall EXCEPT !.op = "append", !.ran = TRUE]
    /\ UNCHANGED other

\* self.clear()
ListClear ==
    /\ self' = list_clear(self)
    /\ heap' = Collect(heap, self')
    /\ call' = [NoCall EXCEPT !.op = "clear", !.ran = TRUE]
    /\ UNCHANGED other

\* Spans of one line.
ListRaws == RawSpans({LineA}, {150, 250}, {100002, 100003}, {BaseGeom}, {BaseStyle})

ListInit == InitOn(Documents(ListRaws, MaxLen))

ListNext ==
    \/ \E by \in {DefaultKey, <<"xo">>}, use_cache \in BOOLEAN : Sort(by, use_cache)
    \/ \E use_cache \in BOOLEAN : Join(use_cache)
    \/ \E use_cache \in BOOLEAN : AssignHorizontalEndOnPage(<<200>>, use_cache)
    \/ \E raw \in ListRaws : ListAppend(raw)
    \/ ListClear

ListSpec == ListInit /\ [][ListNext]_vars

\* The bucket of a left edge x under delimiters d, as the specification
\* words it: the index of the first delimiter not left of x, else Len(d).
FirstDelimiterNotLeft(x, d) ==
    IF \E i \in 1..Len(d) : x <= d[i]
    THEN (CHOOSE i \in 1..Len(d) : x <= d[i] /\ \A j \in 1..(i - 1) : x > d[j]) - 1
    ELSE Len(d)

\* Every bucket of the collection is the one its cached delimiters give.
BucketsMatchDelimiters(h, c) ==
    \A a \in Held(c) :
        h[a].horizontal_end_on_page
            = FirstDelimiterNotLeft(xl(h[a]), c.horizontal_end_on_page_by_x[1])

\* No two spans that the join key puts next to each other are sequential.
NothingLeftToMerge(h, c) ==
    LET sorted == StablySorted(h, c.items, JoinKey)
    IN  RunStarts(h, sorted) = 1..Len(sorted)

\* C4: when the sequence changes, a cached sort key, join flag or delimiter
\* tuple that the changing operation did not set itself is cleared or
\* recomputed: none is left describing the sequence as it was before.
C4_CachesInvalidatedOnChange ==
    [][(self'.items /= self.items) =>
           /\ (~IsNone(self'.sorted_by) /\ call'.op \notin {"sort", "join"})
                  => InOrderOf(heap', self'.items, self'.sorted_by[1])
           /\ (self'.is_joined /\ call'.op /= "join" /\ NothingLeftToMerge(heap, self))
                  => NothingLeftToMerge(heap', self')
           /\ (/\ ~IsNone(self'.horizontal_end_on_page_by_x)
               /\ call'.op /= "assign_horizontal_end_on_page")
                  => BucketsMatchDelimiters(heap', self')]_vars

\* -------------------------------------------------------------- group queries

\* self.get_contents_from_same_attr(i_ref, attr, diff_tolerance); the
\* collection returned, if any, becomes `other`.  The index is one of the
\* collection, or any index when the tolerance is negative: the tolerance
\* is tested before self[i_ref] is read.
GetContentsFromSameAttr(i_ref, attr, diff_tolerance) ==
    /\ i_ref \in 0..(Len(self.items) - 1) \/ diff_tolerance < 0
    /\ LET r == get_contents_from_same_attr(heap, self, i_ref, attr, diff_tolerance)
       IN  /\ other' = r.coll
           /\ call' = [NoCall EXCEPT !.op = "get_contents_from_same_attr",
                                     !.i_ref = i_ref, !.attr = attr,
                                     !.tolerance = diff_tolerance,
                                     !.ran = TRUE, !.raised = r.raised]
    /\ UNCHANGED <<heap, self>>

\* self.get_contents_from_same_row(i_ref, yo_diff_tolerance)
GetContentsFromSameRow(i_ref, yo_diff_tolerance) ==
    /\ i_ref \in 0..(Len(self.items) - 1) \/ yo_diff_tolerance < 0
    /\ LET r == get_contents_from_same_row(heap, self, i_ref, yo_diff_tolerance)
       IN  /\ other' = r.coll
           /\ call' = [NoCall EXCEPT !.op = "get_contents_from_same_row",
                                     !.i_ref = i_ref,
                                     !.tolerance = yo_diff_tolerance,
                                     !.ran = TRUE, !.raised = r.raised]
    /\ UNCHANGED <<heap, self>>

\* Rows of two pages: yo 100.001 and 100.004 round to 100.00, 100.012 to
\* 100.01, 100.024 to 100.02.
RowRaws ==
    RawSpans({LineA, LineC}, {150}, {100001, 100004, 100012, 100024}, {BaseGeom},
             {BaseStyle})

RowKey == <<"page.number", "yo">>

\* Tolerances in thousandths: 0 and 0.015.  The rounded yo values differ by
\* 0, 0.01 or 0.02, none of which is within float error of a tolerance.
RowTolerances == {0, 15}

RowInit == InitOn(Documents(RowRaws, MaxLen))

RowNext ==
    \/ \E by \in {RowKey, IdKey}, use_cache \in BOOLEAN : Sort(by, use_cache)
    \/ \E i_ref \in 0..(MaxLen - 1), yo_diff_tolerance \in RowTolerances :
           GetContentsFromSameRow(i_ref, yo_diff_tolerance)

RowSpec == RowInit /\ [][RowNext]_vars

\* The span the last query took as its reference.
ReferenceOfCall == heap[self.items[call.i_ref + 1]]

\* C8: get_contents_from_same_row returns exactly the receiver's spans on the
\* reference's page whose yo, rounded to hundredths, is within the tolerance
\* of the reference's rounded yo.
C8_SameRowIsExact ==
    (call.op = "get_contents_from_same_row" /\ call.tolerance >= 0) =>
        /\ call.raised = ""
        /\ ~IsNone(other)
        /\ Len(other[1].items) = Cardinality(Held(other[1]))
        /\ Held(other[1]) =
               {a \in Held(self) :
                   /\ heap[a].line.block.page.number
                          = ReferenceOfCall.line.block.page.number
                   /\ Abs(Round2(yo(heap[a])) - Round2(yo(ReferenceOfCall)))
                          <= call.tolerance}

\* Spans at yo 100.001 and 100.004 of one page were both returned for
\* tolerance 0.015, a span of the same page farther away was not.
C8_Witness ==
    /\ call.op = "get_contents_from_same_row" /\ call.tolerance = 15
    /\ ~IsNone(other)
    /\ {yo(heap[a]) : a \in Held(other[1])} = {100001, 100004}
    /\ \E a \in Held(self) \ Held(other[1]) :
           heap[a].line = ReferenceOfCall.line

\* Spans of two pages, left and right of the delimiters.
AttrRaws == RawSpans({LineA, LineC}, {150, 250}, {100002}, {BaseGeom}, {BaseStyle})

AttrKey == <<"page.number", "horizontal_end_on_page">>

AttrInit == InitOn(Documents(AttrRaws, MaxLen))

AttrNext ==
    \/ \E by \in {AttrKey, IdKey}, use_cache \in BOOLEAN : Sort(by, use_cache)
    \/ \E x_delimiters \in {<<200>>, <<400>>}, use_cache \in BOOLEAN :
           AssignHorizontalEndOnPage(x_delimiters, use_cache)
    \/ \E i_ref \in 0..(MaxLen - 1), attr \in {"xl", "horizontal_end_on_page"},
          diff_tolerance \in {0, 100} :
           GetContentsFromSameAttr(i_ref, attr, diff_tolerance)

AttrSpec == AttrInit /\ [][AttrNext]_vars

\* C7: get_contents_from_same_attr with a numeric attribute returns exactly
\* the receiver's spans on the reference's page whose attribute is within
\* the tolerance of the reference's.
C7_SameAttrIsExact ==
    (/\ call.op = "get_contents_from_same_attr"
     /\ call.tolerance >= 0
     /\ IsNumber(ReferenceOfCall, call.attr)) =>
        /\ call.raised = ""
        /\ ~IsNone(other)
        /\ Held(other[1]) =
               {a \in Held(self) :
                   /\ heap[a].line.block.page = ReferenceOfCall.line.block.page
                   /\ Abs(Attr(heap[a], call.attr) - Attr(ReferenceOfCall, call.attr))
                          <= call.tolerance}

\* ------------------------------------------------------- the text of a merge

\* PDFExtractor._format_text on a text that is not None: the blank characters
\* become spaces, runs of spaces become one space, the ends are stripped.
BlanksToSpaces(text) ==
    [i \in 1..Len(text) |-> IF text[i] \in {"\t", "\n"} THEN " " ELSE text[i]]

RECURSIVE SqueezeSpaces(_)
SqueezeSpaces(text) ==
    IF Len(text) < 2 THEN text
    ELSE IF text[1] = " " /\ text[2] = " " THEN SqueezeSpaces(Tail(text))
    ELSE <<text[1]>> \o SqueezeSpaces(Tail(text))

_format_text(text) == Strip(SqueezeSpaces(BlanksToSpaces(text)))

\* The texts a backend reports: the three of the greeting, one with blanks
\* inside and around it, one of blanks only.
RawTexts ==
    {<<"H", "e", "l", "l", "o">>, <<"W", "o", "r", "l", "d">>, <<"!">>,
     <<"\t", "a", " ", " ", "b", " ">>, <<" ", "\t">>}

\* Spans of one line at three origins, on two rows a tenth apart.
TextRaws ==
    [line : {LineA}, xo : {150, 250, 350}, yo : {100002, 100102},
     geom : {BaseGeom}, style : {BaseStyle}, text : RawTexts]

\* The positions of document d whose formatted text is not empty: the spans
\* extract_contents keeps.
KeptSpans(d) ==
    LET keeps(i) == _format_text(d[i].text) /= <<>>
    IN  SelectSeq([i \in 1..Len(d) |-> i], keeps)

\* The Contents extract_contents makes of document d: ids count the kept
\* spans, numbers count every span of the line.
ExtractedTexts(d) ==
    LET kept == KeptSpans(d)
    IN  [a \in 1..Len(kept) |->
            [Extracted(d, kept[a]) EXCEPT !.id = a - 1,
                                          !.text = _format_text(d[kept[a]].text)]]

TextInit ==
    \E d \in Documents(TextRaws, MaxLen) :
        /\ KeptSpans(d) /= <<>>
        /\ heap = ExtractedTexts(d)
        /\ self = PDFContents([a \in 1..Len(KeptSpans(d)) |-> a], None, None, FALSE)
        /\ other = None
        /\ call = NoCall

TextNext ==
    \/ \E by \in {DefaultKey, <<"xo">>} : Sort(by, FALSE)
    \/ \E use_cache \in BOOLEAN : Join(use_cache)

TextSpec == TextInit /\ [][TextNext]_vars

\* The length of the texts of the first k members of a run, and of the
\* single spaces between them.
RECURSIVE LengthUpTo(_, _, _)
LengthUpTo(h, run, k) ==
    IF k = 0 THEN 0
    ELSE LengthUpTo(h, run, k - 1) + Len(h[run[k]].text) + (IF k > 1 THEN 1 ELSE 0)

\* text is the texts of the run's members, in the run's order, one space
\* between each two, nothing before, after or in between besides.
IsSpacedTextOf(h, run, text) ==
    /\ Len(text) = LengthUpTo(h, run, Len(run))
    /\ \A k \in 1..Len(run) :
           LET end == LengthUpTo(h, run, k)
               member == h[run[k]].text
           IN  /\ SubSeq(text, end - Len(member) + 1, end) = member
               /\ k > 1 => text[end - Len(member)] = " "

IsTrimmed(text) == text /= <<>> /\ Head(text) /= " " /\ text[Len(text)] /= " "

\* C11: the text of every span a join makes is the texts of one run of the
\* sorted sequence, in order, joined with single spaces and trimmed; the
\* runs and the spans made correspond one to one.
C11_MergedTextIsSpacedJoin ==
    [][JoinRan =>
           LET sorted == StablySorted(heap, self.items, JoinKey)
               starts == RunStarts(heap, sorted)
           IN  /\ Len(self'.items) = Cardinality(starts)
               /\ \A b \in starts :
                      \E a \in Held(self') :
                          /\ IsSpacedTextOf(heap, RunAt(heap, sorted, b), heap'[a].text)
                          /\ IsTrimmed(heap'[a].text)
                          /\ Round2(yo(heap'[a])) = Round2(yo(heap[sorted[b]]))]_vars

\* Hello, World and ! at increasing xo of one row were merged into
\* "Hello World !".
C11_Witness ==
    /\ call.op = "join" /\ call.ran
    /\ \E a \in Held(self) :
           heap[a].text
               = <<"H", "e", "l", "l", "o", " ", "W", "o", "r", "l", "d", " ", "!">>

\* ------------------------------------------------------ the style of a merge

\* Sizes 12.004 and 12.006 lie on either side of a hundredth; a red style.
NearStyle == [BaseStyle EXCEPT !.size = 12004]

NextStyle == [BaseStyle EXCEPT !.size = 12006]

RedStyle == [BaseStyle EXCEPT !.rgb_color = 255]

StyleRaws ==
    RawSpans({LineA}, {150, 250}, {100002}, {BaseGeom},
             {BaseStyle, NearStyle, NextStyle, RedStyle})

StyleInit == InitOn(Documents(StyleRaws, MaxLen))

StyleNext ==
    \/ \E use_cache \in BOOLEAN : Join(use_cache)
    \/ \E use_cache \in BOOLEAN : AssignHorizontalEndOnPage(<<200>>, use_cache)

StyleSpec == StyleInit /\ [][StyleNext]_vars

\* The style fields a merged span takes from the first member of its group.
StyleOf(c) ==
    <<c.font, c.flags, c.char_flags, c.bidi, c.alpha, c.rgb_color,
      c.horizontal_end_on_page>>

\* The span of the collection c that was made of the run: its text holds
\* the letters of the run's members.
MadeOfRun(h, c, hBefore, run) ==
    CHOOSE a \in Held(c) : LettersIn(h[a].text) = LettersOfRun(hBefore, run)

\* C12 as the specification words it: in every group a join merges, every
\* member has the size, font, flags, char_flags, bidi, alpha, rgb_color and
\* bucket of the first member, hence of the span made.
C12_GroupSharesStyle ==
    [][JoinRan =>
           LET sorted == StablySorted(heap, self.items, JoinKey)
           IN  \A b \in RunStarts(heap, sorted) :
                   LET run == RunAt(heap, sorted, b)
                       made == heap'[MadeOfRun(heap', self', heap, run)]
                   IN  \A k \in 1..Len(run) :
                           /\ StyleOf(heap[run[k]]) = StyleOf(made)
                           /\ heap[run[k]].size = made.size]_vars

\* C12 as the code has it: the members of a group share font, flags,
\* char_flags, bidi, alpha, rgb_color and bucket with the span made, and
\* their sizes are equal once rounded to hundredths; the span made has the
\* size of the group's first member.
C12_GroupSharesRoundedStyle ==
    [][JoinRan =>
           LET sorted == StablySorted(heap, self.items, JoinKey)
           IN  \A b \in RunStarts(heap, sorted) :
                   LET run == RunAt(heap, sorted, b)
                       made == heap'[MadeOfRun(heap', self', heap, run)]
                   IN  /\ made.size = heap[run[1]].size
                       /\ \A k \in 1..Len(run) :
                              /\ StyleOf(heap[run[k]]) = StyleOf(made)
                              /\ Round2(heap[run[k]].size) = Round2(made.size)]_vars

\* A join merged spans of sizes 12.0 and 12.004 that had been given a bucket.
C12_Witness ==
    /\ call.op = "join" /\ call.ran
    /\ \E a \in Held(self) :
           /\ Len(LettersIn(heap[a].text)) >= 2
           /\ heap[a].horizontal_end_on_page /= NoBucket
    /\ \E a \in Held(self) :
           /\ Len(LettersIn(heap[a].text)) >= 2
           /\ heap[a].size = 12004

\* ------------------------------------------------------------ ids after join

\* The ids of the spans of a collection, in list order.
IdsOf(h, c) == [i \in 1..Len(c.items) |-> h[c.items[i]].id]

IdsAreUnique(h, c) ==
    \A i, j \in 1..Len(c.items) : i /= j => IdsOf(h, c)[i] /= IdsOf(h, c)[j]

\* C13: after a join that runs and leaves n spans the ids are distinct and
\* are 0..n-1, the span made of the k-th run of the sorted sequence having
\* id k (counted from 0); the ids of the collection are distinct at all times.
C13_JoinGivesDenseIds ==
    [][/\ IdsAreUnique(heap', self')
       /\ JoinRan =>
              LET sorted == StablySorted(heap, self.items, JoinKey)
                  starts == RunStarts(heap, sorted)
              IN  /\ {IdsOf(heap', self')[i] : i \in 1..Len(self'.items)}
                         = 0..(Len(self'.items) - 1)
                  /\ \A b \in starts :
                         heap'[MadeOfRun(heap', self', heap, RunAt(heap, sorted, b))].id
                             = Cardinality({s \in starts : s < b})]_vars

\* A join that ran on spans with ids 0, 1, 2 left two spans, the one with
\* id 0 made of spans that did not have id 0.
C13_Witness ==
    /\ call.op = "join" /\ call.ran
    /\ Len(self.items) = 2
    /\ \E a \in Held(self) :
           /\ heap[a].id = 0
           /\ Len(LettersIn(heap[a].text)) = 2
           /\ "a" \notin {heap[a].text[i] : i \in 1..Len(heap[a].text)}

\* --------------------------------------------------------- join under cache

\* C14: join(use_cache=True) on a collection flagged as joined changes
\* nothing: the sequence, the span objects and their ids, sorted_by and the
\* cached delimiters are as before.
C14_CachedJoinIsNoOp ==
    [][(call'.op = "join" /\ call'.use_cache /\ self.is_joined) =>
           (self' = self /\ heap' = heap)]_vars

\* A cached join was skipped on a joined collection of two spans whose
\* buckets were assigned after the join.
C14_Witness ==
    /\ call.op = "join" /\ call.use_cache /\ ~call.ran
    /\ self.is_joined
    /\ Len(self.items) = 2
    /\ ~IsNone(self.horizontal_end_on_page_by_x)

\* ------------------------------------------- the calls that return a new one

\* The heap h without the objects that neither collection holds.
HeapOf(h, c1, c2) == [a \in Held(c1) \cup Held(c2) |-> h[a]]

\* other = self.copy()
Copy ==
    /\ other' = Some(copy(self))
    /\ heap' = HeapOf(heap, self, self)
    /\ call' = [NoCall EXCEPT !.op = "copy", !.ran = TRUE]
    /\ UNCHANGED self

\* other = self.sorted(by, use_cache): a copy is sorted, the receiver is not.
SortedInPlace(by, use_cache) ==
    /\ self' = sort(heap, self, by, use_cache)
    /\ other' = Some(self')
    /\ heap' = HeapOf(heap, self, self')
    /\ call' = [NoCall EXCEPT !.op = "sorted", !.by = by, !.use_cache = use_cache,
                              !.ran = TRUE]

Sorted(by, use_cache) ==
    /\ other' = Some(sort(heap, copy(self), by, use_cache))
    /\ heap' = HeapOf(heap, self, other'[1])
    /\ call' = [NoCall EXCEPT !.op = "sorted", !.by = by, !.use_cache = use_cache,
                              !.ran = TRUE]
    /\ UNCHANGED self

\* other = self.joined(use_cache)
Joined(use_cache) ==
    LET r == join(heap, copy(self), use_cache, Held(self))
    IN  /\ other' = Some(r.coll)
        /\ heap' = HeapOf(r.heap, self, r.coll)
        /\ call' = [NoCall EXCEPT !.op = "joined", !.use_cache = use_cache,
                                  !.ran = TRUE]
        /\ UNCHANGED self

\* other = self.horizontal_end_on_page_assigned(x_delimiters, use_cache): the
\* copy holds the receiver's Content objects, whose buckets the call sets.
HorizontalEndOnPageAssigned(x_delimiters, use_cache) ==
    LET r == assign_horizontal_end_on_page(heap, copy(self), x_delimiters, use_cache)
    IN  /\ other' = Some(r.coll)
        /\ heap' = HeapOf(r.heap, self, r.coll)
        /\ call' = [NoCall EXCEPT !.op = "horizontal_end_on_page_assigned",
                                  !.x_delimiters = x_delimiters,
                                  !.use_cache = use_cache, !.ran = TRUE]
        /\ UNCHANGED self

\* other.sort(by, use_cache), other.join(use_cache) and
\* other.assign_horizontal_end_on_page(x_delimiters, use_cache): the later
\* calls on the collection that was returned.
OtherSort(by, use_cache) ==
    /\ ~IsNone(other)
    /\ other' = Some(sort(heap, other[1], by, use_cache))
    /\ call' = [NoCall EXCEPT !.op = "other.sort", !.by = by,
                              !.use_cache = use_cache, !.ran = TRUE]
    /\ UNCHANGED <<heap, self>>

OtherJoin(use_cache) ==
    /\ ~IsNone(other)
    /\ LET r == join(heap, other[1], use_cache, Held(self))
       IN  /\ other' = Some(r.coll)
           /\ heap' = HeapOf(r.heap, self, r.coll)
    /\ call' = [NoCall EXCEPT !.op = "other.join", !.use_cache = use_cache,
                              !.ran = TRUE]
    /\ UNCHANGED self

OtherAssignHorizontalEndOnPage(x_delimiters, use_cache) ==
    /\ ~IsNone(other)
    /\ LET r == assign_horizontal_end_on_page(heap, other[1], x_delimiters, use_cache)
       IN  /\ other' = Some(r.coll)
           /\ heap' = HeapOf(r.heap, self, r.coll)
    /\ call' = [NoCall EXCEPT !.op = "other.assign_horizontal_end_on_page",
                              !.x_delimiters = x_delimiters,
                              !.use_cache = use_cache, !.ran = TRUE]
    /\ UNCHANGED self

\* Spans of one line and one row, left and right of the first delimiter.
CopyRaws == RawSpans({LineA}, {150, 250}, {100002}, {BaseGeom}, {BaseStyle})

CopyKeys == {<<"xo">>, BucketKey}

CopyDelimiters == {<<200>>, <<100>>}

CopyInit == InitOn(Documents(CopyRaws, MaxCopyLen))

CopyNext ==
    \/ Copy
    \/ \E by \in CopyKeys : Sort(by, FALSE)
    \/ Join(FALSE)
    \/ \E x_delimiters \in CopyDelimiters, use_cache \in BOOLEAN :
           AssignHorizontalEndOnPage(x_delimiters, use_cache)
    \/ \E by \in CopyKeys, use_cache \in BOOLEAN : Sorted(by, use_cache)
    \/ \E use_cache \in BOOLEAN : Joined(use_cache)
    \/ \E x_delimiters \in CopyDelimiters, use_cache \in BOOLEAN :
           HorizontalEndOnPageAssigned(x_delimiters, use_cache)
    \/ \E by \in CopyKeys : OtherSort(by, TRUE)
    \/ OtherJoin(TRUE)
    \/ \E x_delimiters \in CopyDelimiters :
           OtherAssignHorizontalEndOnPage(x_delimiters, TRUE)

CopySpec == CopyInit /\ [][CopyNext]_vars

ReturningCalls == {"sorted", "joined", "horizontal_end_on_page_assigned"}

CallsOnOther == {"other.sort", "other.join", "other.assign_horizontal_end_on_page"}

CallsOnSelf == {"sort", "join", "assign_horizontal_end_on_page"}

\* C15: sorted, joined and horizontal_end_on_page_assigned return a
\* collection and leave the receiver's sequence (the same objects in the
\* same order), sorted_by, is_joined and cached delimiters as they were;
\* sorted and horizontal_end_on_page_assigned return the receiver's own span
\* objects; a later call on either collection leaves the sequence and the
\* cache fields of the other one as they were.
C15_ReturningCallsKeepReceiver ==
    [][/\ call'.op \in ReturningCalls =>
              /\ self' = self
              /\ ~IsNone(other')
              /\ Held(self) \subseteq DOMAIN heap'
       /\ call'.op \in {"sorted", "horizontal_end_on_page_assigned"} =>
              Held(other'[1]) = Held(self)
       /\ call'.op \in CallsOnOther => self' = self
       /\ call'.op \in CallsOnSelf => other' = other]_vars

\* A collection returned by sorted was sorted again by another key: it and
\* the receiver hold the same objects in different orders under different
\* cached keys.
C15_Witness ==
    /\ call.op = "other.sort"
    /\ ~IsNone(other)
    /\ Held(other[1]) = Held(self)
    /\ other[1].items /= self.items
    /\ ~IsNone(self.sorted_by)
    /\ other[1].sorted_by /= self.sorted_by

\* ------------------------------------------------- the order of a query result

\* Spans of one origin x on three rows of two pages.
OrderRaws ==
    RawSpans({LineA, LineC}, {150}, {100001, 100004, 100012}, {BaseGeom}, {BaseStyle})

OrderInit == InitOn(Documents(OrderRaws, MaxLen))

OrderNext ==
    \/ \E by \in {<<"xo">>, IdKey}, use_cache \in BOOLEAN : Sort(by, use_cache)
    \/ \E i_ref \in 0..(MaxLen - 1), yo_diff_tolerance \in RowTolerances :
           GetContentsFromSameRow(i_ref, yo_diff_tolerance)
    \/ \E i_ref \in 0..(MaxLen - 1) : GetContentsFromSameAttr(i_ref, "xl", 0)

OrderSpec == OrderInit /\ [][OrderNext]_vars

QueryCalls == {"get_contents_from_same_attr", "get_contents_from_same_row"}

\* C16: the spans a query returns are in the relative order they have in
\* the receiver: the result is a subsequence of the receiver.
C16_ResultIsSubsequence ==
    (call.op \in QueryCalls /\ call.raised = "" /\ ~IsNone(other)) =>
        \A i, j \in 1..Len(other[1].items) :
            i < j => PosIn(self.items, other[1].items[i])
                         < PosIn(self.items, other[1].items[j])

\* ------------------------------------------------ the reference of a query

\* C17: with a valid index, a tolerance that is not negative and, for
\* get_contents_from_same_attr, a numeric attribute, a query does not raise
\* "Reference content not found" and returns a collection that holds the
\* reference span self[i_ref].
C17_ReferenceIsReturned ==
    (/\ call.op \in QueryCalls
     /\ call.tolerance >= 0
     /\ IsNumber(ReferenceOfCall, call.attr)) =>
        /\ call.raised = ""
        /\ ~IsNone(other)
        /\ self.items[call.i_ref + 1] \in Held(other[1])

\* ----------------------------------------------------- the errors of a query

ErrorRaws == RawSpans({LineA}, {150, 250}, {100002}, {BaseGeom}, {BaseStyle})

ErrorAttrs == {"xl", "text", "font", "horizontal_end_on_page"}

\* Tolerances in thousandths: -0.001 and 0.
ErrorTolerances == {-1, 0}

ErrorInit == InitOn(Documents(ErrorRaws, MaxLen))

ErrorNext ==
    \/ \E use_cache \in BOOLEAN : Sort(<<"xo">>, use_cache)
    \/ \E use_cache \in BOOLEAN : AssignHorizontalEndOnPage(<<200>>, use_cache)
    \/ \E i_ref \in 0..MaxLen, yo_diff_tolerance \in ErrorTolerances :
           GetContentsFromSameRow(i_ref, yo_diff_tolerance)
    \/ \E i_ref \in 0..MaxLen, attr \in ErrorAttrs, diff_tolerance \in ErrorTolerances :
           GetContentsFromSameAttr(i_ref, attr, diff_tolerance)

ErrorSpec == ErrorInit /\ [][ErrorNext]_vars

\* The ValueErrors raised for a negative tolerance.
NegativeToleranceErrors ==
    {"The argument 'diff_tolerance' can not be less then zero.",
     "The argument 'yo_diff_tolerance' can not be less then zero."}

\* C18: a query called with a negative tolerance raises a ValueError about
\* the tolerance, whatever the collection and the index, returns nothing and
\* leaves the receiver's sequence, spans and cache fields unchanged.
C18_NegativeToleranceRaises ==
    [][(call'.op \in QueryCalls /\ call'.tolerance < 0) =>
           /\ call'.raised \in NegativeToleranceErrors
           /\ IsNone(other')
           /\ self' = self
           /\ heap' = heap]_vars

\* Both queries raised for a negative tolerance, one of them with an index
\* past the end of a collection that had been sorted and given buckets.
C18_Witness ==
    /\ call.op \in QueryCalls
    /\ call.tolerance < 0
    /\ call.raised \in NegativeToleranceErrors
    /\ call.i_ref >= Len(self.items)
    /\ ~IsNone(self.sorted_by)
    /\ ~IsNone(self.horizontal_end_on_page_by_x)

\* C19: get_contents_from_same_attr with a valid index and a tolerance that
\* is not negative raises the ValueError about the attribute when the
\* attribute of the reference span is a string (text, font) or None (a
\* bucket not assigned), returns nothing and leaves the receiver unchanged.
C19_NonNumericAttrRaises ==
    [][(/\ call'.op = "get_contents_from_same_attr"
        /\ call'.tolerance >= 0
        /\ \/ call'.attr \in {"text", "font"}
           \/ /\ call'.attr = "horizontal_end_on_page"
              /\ heap[self.items[call'.i_ref + 1]].horizontal_end_on_page = NoBucket) =>
           /\ call'.raised = "The 'attr' must be int or float."
           /\ IsNone(other')
           /\ self' = self
           /\ heap' = heap]_vars

\* The query raised for the font of a span of a sorted collection.
C19_Witness ==
    /\ call.op = "get_contents_from_same_attr"
    /\ call.attr = "font"
    /\ call.tolerance >= 0
    /\ call.raised = "The 'attr' must be int or float."
    /\ ~IsNone(self.sorted_by)
    /\ Len(self.items) >= 2

\* ------------------------------------------------- bucket assignment under cache

\* C20: assign_horizontal_end_on_page(x_delimiters, use_cache=True) on a
\* collection whose cached delimiters are x_delimiters changes no bucket and
\* no cache field; every other call stores x_delimiters as the cached
\* delimiters.
C20_CachedAssignIsNoOp ==
    [][call'.op = "assign_horizontal_end_on_page" =>
           IF /\ call'.use_cache
              /\ self.horizontal_end_on_page_by_x = Some(call'.x_delimiters)
           THEN self' = self /\ heap' = heap
           ELSE self'.horizontal_end_on_page_by_x = Some(call'.x_delimiters)]_vars

\* A cached assignment was skipped although a span of the collection has
\* another bucket than the cached delimiters give: a copy of the collection
\* was given other delimiters in between.
C20_Witness ==
    /\ call.op = "assign_horizontal_end_on_page" /\ call.use_cache /\ ~call.ran
    /\ self.horizontal_end_on_page_by_x = Some(call.x_delimiters)
    /\ \E a \in Held(self) :
           heap[a].horizontal_end_on_page
               /= assigned_bucket(heap[a], call.x_delimiters)

\* ------------------------------------------------------------ check_if_matches

\* attrgetter(key)(content) as check_if_matches compares it: the text and
\* the font name are strings, the rest are numbers.
AttrValue(c, key) ==
    IF key = "text" THEN c.text
    ELSE IF key = "font" THEN c.font
    ELSE Attr(c, key)

\* `value in text` for two strings: value starts at some position of text.
RECURSIVE ContainsFrom(_, _, _)
ContainsFrom(value, text, i) ==
    IF i + Len(value) - 1 > Len(text) THEN FALSE
    ELSE IF SubSeq(text, i, i + Len(value) - 1) = value THEN TRUE
    ELSE ContainsFrom(value, text, i + 1)

\* A test that takes `value in text` to mean that text starts with value.
StartsWith(value, text) ==
    Len(value) <= Len(text) /\ SubSeq(text, 1, Len(value)) = value

Contains(value, text) == ContainsFrom(value, text, 1)

\* The all(...) of check_if_matches: content meets every item of the
\* pattern map known_content.
MeetsAll(content, known_content, exactly_text) ==
    \A key \in DOMAIN known_content :
        IF key /= "text" \/ exactly_text
        THEN AttrValue(content, key) = known_content[key]
        ELSE Contains(known_content[key], AttrValue(content, key))

\* The inner loop of check_if_matches from position i of the collection:
\* found_match.
RECURSIVE FoundMatchFrom(_, _, _, _, _)
FoundMatchFrom(h, items, i, known_content, exactly_text) ==
    IF i > Len(items) THEN FALSE
    ELSE IF MeetsAll(h[items[i]], known_content, exactly_text) THEN TRUE
    ELSE FoundMatchFrom(h, items, i + 1, known_content, exactly_text)

\* PDFContents.check_if_matches: False at the first pattern map without a
\* match, True after the last one.
RECURSIVE check_if_matches(_, _, _, _)
check_if_matches(h, c, known_contents, exactly_text) ==
    IF known_contents = <<>> THEN TRUE
    ELSE IF ~FoundMatchFrom(h, c.items, 1, Head(known_contents), exactly_text) THEN FALSE
    ELSE check_if_matches(h, c, Tail(known_contents), exactly_text)

\* self.check_if_matches(known_contents, exactly_text)
CheckIfMatches(known_contents, exactly_text) ==
    /\ call' = [NoCall EXCEPT !.op = "check_if_matches",
                              !.known_contents = known_contents,
                              !.exactly_text = exactly_text,
                              !.ran = TRUE,
                              !.result = check_if_matches(heap, self, known_contents,
                                                          exactly_text)]
    /\ UNCHANGED <<heap, self, other>>

\* Spans "Hi" and "i" at two origins of one row.
MatchRaws ==
    [line : {LineA}, xo : {150, 250}, yo : {100002}, geom : {BaseGeom},
     style : {BaseStyle}, text : {<<"H", "i">>, <<"i">>}]

\* Pattern maps: on the text, on xo, on both, on the font, and the empty one.
MatchPatterns ==
    {[text |-> <<"i">>], [text |-> <<"H", "i">>], [xo |-> 150],
     [text |-> <<"i">>, xo |-> 250], [font |-> "Times"], <<>>}

\* The lists of at most two pattern maps.
MatchLists == {<<>>} \cup {<<p>> : p \in MatchPatterns}
                  \cup {<<p, q>> : p \in MatchPatterns, q \in MatchPatterns}

MatchInit ==
    \E d \in Documents(MatchRaws, MaxLen) :
        /\ heap = ExtractedTexts(d)
        /\ self = PDFContents([a \in 1..Len(d) |-> a], None, None, FALSE)
        /\ other = None
        /\ call = NoCall

MatchNext ==
    \/ Join(FALSE)
    \/ \E known_contents \in MatchLists, exactly_text \in BOOLEAN :
           CheckIfMatches(known_contents, exactly_text)

MatchSpec == MatchInit /\ [][MatchNext]_vars

\* value occurs in text: at some position the characters of text are those
\* of value.
IsSubstring(value, text) ==
    \E i \in 1..(Len(text) + 1) :
        /\ i + Len(value) - 1 <= Len(text)
        /\ \A k \in 1..Len(value) : text[i + k - 1] = value[k]

\* The span meets the constraint of a pattern map on key.
MeetsConstraint(span, key, value, exactly_text) ==
    IF key = "text"
    THEN IF exactly_text THEN span.text = value ELSE IsSubstring(value, span.text)
    ELSE IF key = "font" THEN span.font = value
    ELSE Attr(span, key) = value

\* C21: check_if_matches returns True exactly when every pattern map is met,
\* all its constraints at once, by at least one span of the collection: by
\* equality for every attribute but text, for text by containment or, with
\* exactly_text, by equality.  It returns True for no pattern map and
\* changes nothing.
C21_MatchesIffEveryPatternMet ==
    [][call'.op = "check_if_matches" =>
           /\ call'.result =
                  (\A k \in 1..Len(call'.known_contents) :
                       \E a \in Held(self) :
                           \A key \in DOMAIN call'.known_contents[k] :
                               MeetsConstraint(heap[a], key,
                                               call'.known_contents[k][key],
                                               call'.exactly_text))
           /\ call'.known_contents = <<>> => call'.result
           /\ self' = self /\ heap' = heap /\ other' = other]_vars

\* The pattern "i" was found inside the merged text "Hi i" at xo 150 by
\* containment, with a second pattern on xo met by the same collection.
C21_Witness ==
    /\ call.op = "check_if_matches"
    /\ call.result
    /\ ~call.exactly_text
    /\ Len(call.known_contents) = 2
    /\ call.known_contents[1] = [text |-> <<"i">>]
    /\ \A a \in Held(self) : Len(heap[a].text) > 2

\* --------------------------------------------------------------- sorting twice

\* C22: sort(by, use_cache=False) right after sort(by, use_cache=False) with
\* the same key leaves the order and the cached key of the first call.
C22_SortIsIdempotent ==
    [][(/\ call.op = "sort" /\ ~call.use_cache
        /\ call'.op = "sort" /\ ~call'.use_cache
        /\ call'.by = call.by) =>
           self' = self]_vars

\* A forced sort by xo has put spans of equal xo, b before a in the
\* document order reversed by an earlier sort, next to each other.
C22_Witness ==
    /\ call.op = "sort" /\ ~call.use_cache /\ call.by = <<"xo">>
    /\ self.sorted_by = Some(<<"xo">>)
    /\ \E i \in 1..(Len(self.items) - 1) :
           /\ xo(heap[self.items[i]]) = xo(heap[self.items[i + 1]])
           /\ heap[self.items[i]].id > heap[self.items[i + 1]].id

\* ------------------------------------------------------------------ copying

SortingCalls == {"sort", "sorted", "other.sort"}

\* The collection a sorting call worked on: the receiver or the other one.
SortedByCall == IF call.op = "sort" THEN self ELSE other[1]

\* C23: copy returns a collection with the receiver's span objects in the
\* receiver's order and with its sorted_by, is_joined and cached delimiters,
\* and leaves the receiver as it was; after a sort the cached key is the
\* key that was asked for.
C23_CopyKeepsOrderAndCaches ==
    [][/\ call'.op = "copy" =>
              /\ other' = Some(self)
              /\ self' = self
              /\ \A a \in Held(self) : heap'[a] = heap[a]
       /\ call'.op \in SortingCalls => SortedByCall'.sorted_by = Some(call'.by)]_vars

\* A copy was taken of a collection of two spans whose cached key is the
\* bucket key while its order is not the order of that key: the copy has
\* the same order and the same cached key.
C23_Witness ==
    /\ call.op = "copy"
    /\ other = Some(self)
    /\ self.sorted_by = Some(BucketKey)
    /\ ~InOrderOf(heap, self.items, BucketKey)

\* ------------------------------------------------------ the fields of a span

FrameInit == InitOn(Documents(CopyRaws, MaxCopyLen))

\* Every method of the collection, the mutating ones forced to run.
FrameNext ==
    \/ \E by \in CopyKeys : Sort(by, FALSE)
    \/ Join(FALSE)
    \/ \E x_delimiters \in CopyDelimiters : AssignHorizontalEndOnPage(x_delimiters, FALSE)
    \/ Copy
    \/ \E by \in CopyKeys : Sorted(by, FALSE)
    \/ Joined(FALSE)
    \/ \E x_delimiters \in CopyDelimiters :
           HorizontalEndOnPageAssigned(x_delimiters, FALSE)
    \/ \E i_ref \in 0..(MaxCopyLen - 1) : GetContentsFromSameRow(i_ref, 0)
    \/ \E i_ref \in 0..(MaxCopyLen - 1) : GetContentsFromSameAttr(i_ref, "xl", 0)
    \/ \E exactly_text \in BOOLEAN : CheckIfMatches(<<[xo |-> 150]>>, exactly_text)

FrameSpec == FrameInit /\ [][FrameNext]_vars

AssigningCalls == {"assign_horizontal_end_on_page", "horizontal_end_on_page_assigned"}

\* The span objects that exist before and after the step: join replaces
\* the objects of the collection it works on by new ones, so after
\* self.join() the objects the other collection holds remain, and after
\* self.joined() those of the receiver; every other call keeps all objects.
ExistingSpans ==
    IF call'.op = "join" THEN HeldByOther
    ELSE IF call'.op = "joined" THEN Held(self)
    ELSE DOMAIN heap \cap DOMAIN heap'

\* C24: the bucket of an existing span changes only in a bucket assignment,
\* which changes no other field; sort, sorted, copy, join, joined, the two
\* queries and check_if_matches leave every field of every existing span
\* as it was.
C24_OnlyAssignmentWritesSpans ==
    [][\A a \in ExistingSpans :
           IF call'.op \in AssigningCalls
           THEN [heap'[a] EXCEPT !.horizontal_end_on_page =
                                     heap[a].horizontal_end_on_page] = heap[a]
           ELSE heap'[a] = heap[a]]_vars

\* The receiver was joined while a collection returned earlier still holds
\* the two spans it was made of, with their buckets.
C24_Witness ==
    /\ call.op = "join" /\ call.ran
    /\ Len(self.items) = 1
    /\ ~IsNone(other)
    /\ Len(other[1].items) = 2
    /\ Held(other[1]) \cap Held(self) = {}
    /\ \A a \in Held(other[1]) : heap[a].horizontal_end_on_page /= NoBucket

\* ------------------------------------------------------- well-formed boxes

BoxInit == InitOn(Documents(MergeRaws, MaxLen))

BoxNext ==
    \/ \E by \in {<<"xo">>, BucketKey} : Sort(by, FALSE)
    \/ \E use_cache \in BOOLEAN : Join(use_cache)
    \/ AssignHorizontalEndOnPage(<<200>>, FALSE)

BoxSpec == BoxInit /\ [][BoxNext]_vars

\* Every span of the collection has its left edge not right of its right
\* edge and its top not below its bottom.
BoxesAreWellFormed(h, c) ==
    \A a \in Held(c) : xl(h[a]) <= xr(h[a]) /\ yt(h[a]) <= yb(h[a])

\* The box outer contains the box inner.
BoxContains(outer, inner) ==
    /\ outer[1] <= inner[1] /\ outer[2] <= inner[2]
    /\ outer[3] >= inner[3] /\ outer[4] >= inner[4]

\* C25: the spans of a collection whose boxes were well formed have well
\* formed boxes after every sort, join and bucket assignment, and the box
\* of a span made by join contains the box of every span of its group.
C25_BoxesStayWellFormed ==
    [][/\ BoxesAreWellFormed(heap, self) => BoxesAreWellFormed(heap', self')
       /\ JoinRan =>
              LET sorted == StablySorted(heap, self.items, JoinKey)
              IN  \A b \in RunStarts(heap, sorted) :
                      LET run == RunAt(heap, sorted, b)
                          made == heap'[MadeOfRun(heap', self', heap, run)]
                      IN  \A k \in 1..Len(run) :
                              BoxContains(made.bbox, heap[run[k]].bbox)]_vars

\* A join made a well-formed box that is wider and taller than the box of
\* a span it was made of.
C25_Witness ==
    /\ call.op = "join" /\ call.ran
    /\ BoxesAreWellFormed(heap, self)
    /\ \E a \in Held(self) :
           /\ Len(LettersIn(heap[a].text)) >= 2
           /\ xr(heap[a]) - xl(heap[a]) > 90
           /\ yb(heap[a]) - yt(heap[a]) > 15000

\* ------------------------------------------------------------------- get_dict

\* A dict is the sequence of its <<key, value>> items in insertion order.  A
\* key is the sequence of the words between its underscores: "page_number"
\* is <<"page", "number">>, so that key.startswith("page_") can be decided.
DictKeys(d) == [i \in 1..Len(d) |-> d[i][1]]

DictHas(d, key) == \E i \in 1..Len(d) : d[i][1] = key

DictGet(d, key) == d[CHOOSE i \in 1..Len(d) : d[i][1] = key][2]

\* d.pop(key): d without the item of key.
DictPop(d, key) ==
    LET others(item) == item[1] /= key
    IN  SelectSeq(d, others)

\* d[key] = value: in the place of the key if d has it, else at the end.
DictSet(d, key, value) ==
    IF DictHas(d, key)
    THEN [i \in 1..Len(d) |-> IF d[i][1] = key THEN <<key, value>> ELSE d[i]]
    ELSE Append(d, <<key, value>>)

\* {..., **more}: the items of more set one after the other.
RECURSIVE DictUpdate(_, _)
DictUpdate(d, more) ==
    IF more = <<>> THEN d
    ELSE DictUpdate(DictSet(d, Head(more)[1], Head(more)[2]), Tail(more))

\* for key in d.copy(): if the key starts with none of the words of `kept`
\* followed by "_":
\*     d[prefix + "_" + key] = d.pop(key)
RECURSIVE PrefixKeys(_, _, _, _)
PrefixKeys(d, keys, prefix, kept) ==
    IF keys = <<>> THEN d
    ELSE LET key == Head(keys)
         IN  IF \E word \in kept : Len(key) > 1 /\ key[1] = word
             THEN PrefixKeys(d, Tail(keys), prefix, kept)
             ELSE PrefixKeys(DictSet(DictPop(d, key), <<prefix>> \o key, DictGet(d, key)),
                             Tail(keys), prefix, kept)

\* (a + b) / 2, width and area of a box; a half is kept as <<sum, 2>>.
xc(o) == <<xl(o) + xr(o), 2>>

yc(o) == <<yt(o) + yb(o), 2>>

width(o) == xr(o) - xl(o)

height(o) == yb(o) - yt(o)

area(o) == width(o) * height(o)

\* Page.get_dict
Page_get_dict(page) ==
    <<<<<<"number">>, page.number>>, <<<<"width">>, page.width>>,
      <<<<"height">>, page.height>>>>

\* Block.get_dict
Block_get_dict(block) ==
    LET page_dict == Page_get_dict(block.page)
    IN  DictUpdate(
            <<<<<<"id">>, block.id>>, <<<<"number">>, block.number>>,
              <<<<"xl">>, xl(block)>>, <<<<"yt">>, yt(block)>>,
              <<<<"xr">>, xr(block)>>, <<<<"yb">>, yb(block)>>,
              <<<<"xc">>, xc(block)>>, <<<<"yc">>, yc(block)>>>>,
            PrefixKeys(page_dict, DictKeys(page_dict), "page", {}))

\* The own items of Line.get_dict.
LineItems(line) ==
    <<<<<<"id">>, line.id>>, <<<<"number">>, line.number>>,
      <<<<"xl">>, xl(line)>>, <<<<"yt">>, yt(line)>>,
      <<<<"xr">>, xr(line)>>, <<<<"yb">>, yb(line)>>,
      <<<<"xc">>, xc(line)>>, <<<<"yc">>, yc(line)>>,
      <<<<"width">>, width(line)>>, <<<<"height">>, height(line)>>,
      <<<<"area">>, area(line)>>>>

\* A Line.get_dict that prefixes the page keys of the block's dict too.
Line_get_dict_prefixing_all(line) ==
    LET block_dict == Block_get_dict(line.block)
    IN  DictUpdate(LineItems(line),
                   PrefixKeys(block_dict, DictKeys(block_dict), "block", {}))

\* Line.get_dict
Line_get_dict(line) ==
    LET block_dict == Block_get_dict(line.block)
    IN  DictUpdate(LineItems(line),
                   PrefixKeys(block_dict, DictKeys(block_dict), "block", {"page"}))

\* Content.get_dict
Content_get_dict(c) ==
    LET line_dict == Line_get_dict(c.line)
        own_dict ==
        <<<<<<"id">>, c.id>>, <<<<"number">>, c.number>>, <<<<"text">>, c.text>>,
          <<<<"xl">>, xl(c)>>, <<<<"yt">>, yt(c)>>, <<<<"xr">>, xr(c)>>,
          <<<<"yb">>, yb(c)>>, <<<<"xc">>, xc(c)>>, <<<<"yc">>, yc(c)>>,
          <<<<"xo">>, xo(c)>>, <<<<"yo">>, yo(c)>>,
          <<<<"width">>, width(c)>>, <<<<"height">>, height(c)>>,
          <<<<"area">>, area(c)>>,
          <<<<"ascender">>, c.ascender>>, <<<<"descender">>, c.descender>>,
          <<<<"size">>, c.size>>, <<<<"font">>, c.font>>, <<<<"flags">>, c.flags>>,
          <<<<"char", "flags">>, c.char_flags>>, <<<<"bidi">>, c.bidi>>,
          <<<<"alpha">>, c.alpha>>, <<<<"rgb", "color">>, c.rgb_color>>,
          <<<<"horizontal", "end", "on", "page">>, c.horizontal_end_on_page>>>>
    IN  DictUpdate(own_dict,
                   PrefixKeys(line_dict, DictKeys(line_dict), "line", {"page", "block"}))

\* self[i_ref].get_dict()
GetDict(i_ref) ==
    /\ i_ref \in 0..(Len(self.items) - 1)
    /\ call' = [NoCall EXCEPT !.op = "get_dict", !.i_ref = i_ref, !.ran = TRUE,
                              !.result = Content_get_dict(heap[self.items[i_ref + 1]])]
    /\ UNCHANGED <<heap, self, other>>

\* Spans of three lines, two blocks and two pages.
DictInit ==
    InitOn(Documents(RawSpans({LineA, LineB, LineC}, {150, 250}, {100002},
                              {WideGeom, TallGeom}, {BaseStyle}), MaxLen))

DictNext ==
    \/ Join(FALSE)
    \/ AssignHorizontalEndOnPage(<<200>>, FALSE)
    \/ \E i_ref \in 0..(MaxLen - 1) : GetDict(i_ref)

DictSpec == DictInit /\ [][DictNext]_vars

\* The fields every box-shaped entity (Block, Line, Content) has, by name.
BoxFields(o) ==
    <<<<"id", o.id>>, <<"number", o.number>>, <<"xl", o.bbox[1]>>,
      <<"yt", o.bbox[2]>>, <<"xr", o.bbox[3]>>, <<"yb", o.bbox[4]>>,
      <<"xc", <<o.bbox[1] + o.bbox[3], 2>>>>, <<"yc", <<o.bbox[2] + o.bbox[4], 2>>>>>>

\* The further fields of a Line and of a Content.
SizeFields(o) ==
    <<<<"width", o.bbox[3] - o.bbox[1]>>, <<"height", o.bbox[4] - o.bbox[2]>>,
      <<"area", (o.bbox[3] - o.bbox[1]) * (o.bbox[4] - o.bbox[2])>>>>

PageFields(page) ==
    <<<<"number", page.number>>, <<"width", page.width>>, <<"height", page.height>>>>

\* The fields of a Content alone whose name is one word.
SpanFields(c) ==
    <<<<"text", c.text>>, <<"xo", c.origin[1]>>, <<"yo", c.origin[2]>>,
      <<"ascender", c.ascender>>, <<"descender", c.descender>>,
      <<"size", c.size>>, <<"font", c.font>>, <<"flags", c.flags>>,
      <<"bidi", c.bidi>>, <<"alpha", c.alpha>>>>

\* Every field of `fields` is in d under its name after `prefix`, with its value.
MapsFields(d, prefix, fields) ==
    \A i \in 1..Len(fields) :
        /\ DictHas(d, prefix \o <<fields[i][1]>>)
        /\ DictGet(d, prefix \o <<fields[i][1]>>) = fields[i][2]

\* C26: Content.get_dict() maps the span's own fields to unprefixed keys and
\* the fields of its line, block and page to their names prefixed with line_,
\* block_ and page_, each with the ancestor's own value, and no two fields are
\* mapped to the same key: the map has one key for each of the 24 + 11 + 8 + 3
\* fields.
C26_DictIsFlatPrefixedMap ==
    call.op = "get_dict" =>
        LET c == heap[self.items[call.i_ref + 1]]
            d == call.result
        IN  /\ MapsFields(d, <<>>, BoxFields(c) \o SizeFields(c) \o SpanFields(c))
            /\ DictGet(d, <<"char", "flags">>) = c.char_flags
            /\ DictGet(d, <<"rgb", "color">>) = c.rgb_color
            /\ DictGet(d, <<"horizontal", "end", "on", "page">>) = c.horizontal_end_on_page
            /\ MapsFields(d, <<"line">>, BoxFields(c.line) \o SizeFields(c.line))
            /\ MapsFields(d, <<"block">>, BoxFields(c.line.block))
            /\ MapsFields(d, <<"page">>, PageFields(c.line.block.page))
            /\ \A i, j \in 1..Len(d) : d[i][1] = d[j][1] => i = j
            /\ Len(d) = 24 + 11 + 8 + 3

\* A map was taken of a span whose number, left edge and page differ from
\* those of its line and block.
C26_Witness ==
    /\ call.op = "get_dict"
    /\ LET c == heap[self.items[call.i_ref + 1]]
       IN  /\ c.bbox[1] /= c.line.bbox[1]
           /\ c.line.bbox[1] /= c.line.block.bbox[1]
           /\ c.id /= c.line.id
           /\ c.line.id /= c.line.block.id
           /\ c.horizontal_end_on_page /= NoBucket

\* ------------------------------------------------------ the cached sort key

\* Sorts by keys that do not name the bucket, joins and bucket assignments,
\* cached or forced, on a collection made with no cached key.
KeyNext ==
    \/ \E by \in {DefaultKey, JoinKey, <<"xo">>}, use_cache \in BOOLEAN : Sort(by, use_cache)
    \/ \E use_cache \in BOOLEAN : Join(use_cache)
    \/ \E x_delimiters \in DelimiterChoices, use_cache \in BOOLEAN :
           AssignHorizontalEndOnPage(x_delimiters, use_cache)

KeySpec == Init /\ [][KeyNext]_vars

\* C27: on a collection created with no cached key, after any sort, join and
\* assign_horizontal_end_on_page calls, cached or forced, whose sort keys do
\* not name horizontal_end_on_page, the sequence is in non-decreasing order of
\* the cached key whenever there is one.
C27_CachedKeyIsNeverStale ==
    ~IsNone(self.sorted_by) => InOrderOf(heap, self.items, self.sorted_by[1])

\* A bucket assignment ran on a joined collection of spans of different xo
\* that has a cached key, and the extraction order was not that of the key.
C27_Witness ==
    /\ call.op = "assign_horizontal_end_on_page" /\ call.ran
    /\ self.is_joined
    /\ self.sorted_by = Some(<<"xo">>)
    /\ \E i \in 1..(Len(self.items) - 1) :
           /\ xo(heap[self.items[i]]) < xo(heap[self.items[i + 1]])
           /\ heap[self.items[i]].line.id > heap[self.items[i + 1]].line.id

\* -------------------------------------------- buckets of collections that share

\* C28: after any assign_horizontal_end_on_page,
\* horizontal_end_on_page_assigned, copy, sorted and sort calls on the
\* collections derived from one collection, every collection whose cached
\* delimiters are a tuple D holds only spans whose bucket is the one their xl
\* and D give; assigning other delimiters on a copy leaves the original in
\* agreement with its own cached delimiters.
C28_BucketsAgreeWithCachedDelimiters ==
    /\ ~IsNone(self.horizontal_end_on_page_by_x) => BucketsMatchDelimiters(heap, self)
    /\ (~IsNone(other) /\ ~IsNone(other[1].horizontal_end_on_page_by_x)) =>
           BucketsMatchDelimiters(heap, other[1])

\* ------------------------------------------------- joining after an assignment

\* C29: a join that runs on a collection with cached delimiters D keeps D and
\* leaves every span, the merged ones included, with the bucket that its own
\* xl (for a merged span the least xl of its group) and D give.
C29_JoinKeepsBucketsOfDelimiters ==
    [][(JoinRan /\ ~IsNone(self.horizontal_end_on_page_by_x)) =>
           /\ self'.horizontal_end_on_page_by_x = self.horizontal_end_on_page_by_x
           /\ BucketsMatchDelimiters(heap', self')]_vars

\* A join after an assignment merged two spans of different boxes into one
\* that is wider than either, next to a span of another bucket.
C29_Witness ==
    /\ call.op = "join" /\ call.ran
    /\ self.horizontal_end_on_page_by_x = Some(<<200>>)
    /\ \E a, b \in Held(self) :
           /\ width(heap[a]) > 90
           /\ heap[a].horizontal_end_on_page = 0
           /\ heap[b].horizontal_end_on_page = 1

\* ------------------------------------------- the superseded src/pdf_contents.py

\* The second loop of the superseded get_contents_from_same_row: the first
\* position from i on whose span is not in the row of the span before it.
RECURSIVE ChainEnd(_, _, _, _)
ChainEnd(h, items, i, yo_diff_tolerance) ==
    IF i <= Len(items) /\ _is_same_row(h[items[i]], h[items[i - 1]], yo_diff_tolerance)
    THEN ChainEnd(h, items, i + 1, yo_diff_tolerance)
    ELSE i

\* PDFContents.get_contents_from_same_row of src/pdf_contents.py, whose copy,
\* sort and _is_same_row are those of src/extract/contents.py.
pdf_contents_get_contents_from_same_row(h, c, i_ref, yo_diff_tolerance) ==
    LET content_ref == h[c.items[i_ref + 1]]
        pdf_content == sort(h, copy(c), <<"page.number", "yo">>, TRUE)
        same == {a \in Held(c) : _is_same_row(h[a], content_ref, yo_diff_tolerance)}
        i_initial == FirstMatch(pdf_content.items, same)
        i == ChainEnd(h, pdf_content.items, i_initial + 1, yo_diff_tolerance)
    IN  IF yo_diff_tolerance < 0
        THEN [raised |-> "The argument 'yo_diff_tolerance' can not be less then zero.",
              coll |-> None]
        ELSE IF i_initial = Len(pdf_content.items) + 1
        THEN [raised |-> "Reference content not found when searching for same row.",
              coll |-> None]
        ELSE [raised |-> "",
              coll |-> Some(SortedLikeReceiver(h, c,
                                SubSeq(pdf_content.items, i_initial, i - 1)))]

\* other = self.get_contents_from_same_row(i_ref, yo_diff_tolerance) of the
\* superseded class.
SupersededGetContentsFromSameRow(i_ref, yo_diff_tolerance) ==
    /\ i_ref \in 0..(Len(self.items) - 1) \/ yo_diff_tolerance < 0
    /\ LET r == pdf_contents_get_contents_from_same_row(heap, self, i_ref, yo_diff_tolerance)
       IN  /\ other' = r.coll
           /\ call' = [NoCall EXCEPT !.op = "pdf_contents.get_contents_from_same_row",
                                     !.i_ref = i_ref,
                                     !.tolerance = yo_diff_tolerance,
                                     !.ran = TRUE, !.raised = r.raised]
    /\ UNCHANGED <<heap, self>>

VariantNext ==
    \/ \E by \in {RowKey, IdKey}, use_cache \in BOOLEAN : Sort(by, use_cache)
    \/ \E i_ref \in 0..(MaxLen - 1), yo_diff_tolerance \in RowTolerances :
           GetContentsFromSameRow(i_ref, yo_diff_tolerance)
    \/ \E i_ref \in 0..(MaxLen - 1), yo_diff_tolerance \in RowTolerances :
           SupersededGetContentsFromSameRow(i_ref, yo_diff_tolerance)

VariantSpec == RowInit /\ [][VariantNext]_vars

\* C30: for every collection, valid index and tolerance >= 0 the superseded
\* get_contents_from_same_row of src/pdf_contents.py returns the same spans
\* in the same order as the one of src/extract/contents.py.
C30_VariantsAgree ==
    (call.op = "pdf_contents.get_contents_from_same_row" /\ call.tolerance >= 0) =>
        other = get_contents_from_same_row(heap, self, call.i_ref, call.tolerance).coll
====
